---- MODULE Spec2Model ----
(***************************************************************************)
(* Session keys, spending limits and payment tokens of the agentic         *)
(* payments SDK: SessionKeyManager, SpendingTracker, SessionStorage,       *)
(* PaymentTokenizer and the check -> await -> record skeleton shared by    *)
(* X402Client.handleX402Flow, AgentWallet.pay and                          *)
(* UCPCredentialProvider.processCheckout.                                  *)
(* X402Client.handleFetch under AgentWallet.fetch and withRetry, one step   *)
(* per await point, and AuditLogger with AgentWallet.pay's audit write.     *)
(* AlertManager (spending alerts, high-value approvals), PaymentSigner on   *)
(* the key material of a session, and TransactionQueue.                     *)
(*                                                                         *)
(* Time is Date.now() in milliseconds.  USD amounts are integers (whole    *)
(* dollars); the code uses JS numbers and accepts negative ones.           *)
(***************************************************************************)
EXTENDS Integers, FiniteSets, Sequences, TLC

\* ---------------------------------------------------------------- bounds
MaxFlows == 2
MaxTokens == 2
MaxLimit == 2
MaxTick == 1
MaxDays == 1
MaxTx == 2
MaxLoggers == 2
MaxAudit == 2
MaxChecks == 4
MaxApprovals == 2
MaxKeys == 2
MaxNonces == 2
MaxQueue == 2
MaxCallers == 3
MaxNonceValue == 3
MaxPolls == 2
MaxTracks == 2
MaxGlobalCallbacks == 1
MaxWalletSessions == 2

\* 24 * 60 * 60 * 1000 ms, the daily window and the maximum session duration
DAY_MS == 24 * 60 * 60 * 1000
\* TOKEN_TTL_MS, the default token lifetime
TOKEN_TTL_MS == 15 * 60 * 1000

\* one session: sessions share no state, each has its own storage key and object
KeyHashes == {1}
FlowIds == 1..MaxFlows
TokenIds == 1..MaxTokens
\* USD amounts callers ask for: negative, zero, within and above every limit
Amounts == (-1)..(MaxLimit + 1)
\* the instants Date.now() takes: a few milliseconds around each day boundary
TimePoints == {a + b * DAY_MS : a \in 0..MaxTick, b \in 0..MaxDays}
\* wormhole chain ids a config may list
ChainSets == {<<>>, <<30>>}
FlowKinds == {"x402", "pay", "ucp"}

\* AgentWallet.withRetry: maxRetries
MaxRetries == 3
\* X402Client.estimateUSDValue: the 1_000_000 it compares with and divides by
UNIT == 1000000
\* maxAmountRequired of a 402 challenge, in the token's smallest unit: one
\* unit, and whole multiples of 10^6 units
ChallengeAmounts == {1} \cup {n * UNIT : n \in 1..(MaxLimit + 1)}
\* the symbols estimateUSDValue looks for in request.token
Stablecoins == {"USDC", "USDT", "DAI", "BUSD", "TUSD"}
\* request.token of a 402 challenge
Tokens == {"USDC", "WETH"}
\* AuditLogger instances that share the localStorage entry
Loggers == 1..MaxLoggers

VARIABLES
  now,            \* Date.now()
  store,          \* SessionStorage: localStorage entry per key hash
  obj,            \* the StoredSession object callers hold, per key hash
  currentSession, \* AgentWallet.currentSession (a key hash, 0 = undefined)
  issued,         \* the token strings PaymentTokenizer has handed out
  tokenCache,     \* PaymentTokenizer.tokenCache: the token strings it maps
  flows,          \* payment flows suspended at an await point
  ret,            \* outcome of the call made at the current instant, if any
  hf,             \* the AgentWallet.fetch call in progress and its handleFetch invocation
  auditStore,     \* localStorage entry 'veridex_audit_log': the records last persisted
  auditMem,       \* AuditLogger.inMemoryLogs, per AuditLogger instance
  auditAcked,     \* ids of the records for which log() has returned
  auditN,         \* number of record ids handed out so far
  triggeredAlerts,  \* AlertManager.triggeredAlerts: the latched alert ids
  alertCalls,       \* the checkSpending calls made on the AlertManager, with the alerts each one notified
  pendingApprovals, \* AlertManager.pendingApprovals, per transaction id
  queue,            \* TransactionQueue.queue: the transactions, in insertion order
  activeBatches,    \* TransactionQueue.activeBatches
  batches,          \* the processBatch calls awaiting their transactions
  deadLetterQueue,  \* TransactionQueue.deadLetterQueue
  shuttingDown,     \* TransactionQueue.shuttingDown
  signerSession,    \* the StoredSession handed to PaymentSigner.sign (its key material)
  signerOut,        \* what PaymentSigner.sign and verifySignature last returned
  nonceCache,       \* NonceManager.nonceCache, per key hash
  pendingNonces,    \* NonceManager.pendingNonces, per key hash
  inFlight,         \* the nonce each caller has reserved for its transaction in flight
  usedNonces,       \* the nonces of the confirmed transactions, per key hash
  pollerPending,    \* TransactionPoller.pending: the Map's entries, in insertion order
  pollerCallbacks,  \* TransactionPoller.callbacks: the callbacks per hash
  globalCallbacks,  \* TransactionPoller.globalCallbacks: their number
  pollInterval,     \* TransactionPoller.pollInterval is set
  polls,            \* the poll() calls in progress
  notified,         \* the events delivered for a hash since it was last tracked
  tracks            \* number of track() calls made

vars == <<now, store, obj, currentSession, issued, tokenCache, flows, ret,
          hf, auditStore, auditMem, auditAcked, auditN,
          triggeredAlerts, alertCalls, pendingApprovals,
          queue, activeBatches, batches, deadLetterQueue, shuttingDown,
          signerSession, signerOut,
          nonceCache, pendingNonces, inFlight, usedNonces,
          pollerPending, pollerCallbacks, globalCallbacks, pollInterval, polls,
          notified, tracks>>

\* the state of AlertManager, of TransactionQueue, of PaymentSigner's caller,
\* of NonceManager and of TransactionPoller
avars == <<triggeredAlerts, alertCalls, pendingApprovals>>
qvars == <<queue, activeBatches, batches, deadLetterQueue, shuttingDown>>
svars == <<signerSession, signerOut>>
mvars == <<nonceCache, pendingNonces, inFlight, usedNonces>>
tvars == <<pollerPending, pollerCallbacks, globalCallbacks, pollInterval, polls,
           notified, tracks>>
pvars == <<mvars, tvars>>
nvars == <<avars, qvars, svars, pvars>>

\* the state of X402Client.handleFetch, of AuditLogger and of the components above
xvars == <<hf, auditStore, auditMem, auditAcked, auditN, nvars>>

NoSession == [keyHash |-> 0]
IdleFlow == [pc |-> "idle"]
NoRet == [op |-> "none"]

\* ------------------------------------------------------- SpendingTracker
\* checkLimits without the daily-limit branch
TrackerCheckLimits_NoDailyCheck(session, amountUSD, t) ==
  LET dailySpentUSD == IF t > session.metadata.dailyResetAt
                       THEN 0 ELSE session.metadata.dailySpentUSD
  IN  IF amountUSD > session.config.perTransactionLimitUSD
      THEN [allowed |-> FALSE, reason |-> "exceeds per-transaction limit",
            remainingDailyLimitUSD |-> session.config.dailyLimitUSD - dailySpentUSD]
      ELSE [allowed |-> TRUE, reason |-> "",
            remainingDailyLimitUSD |->
              session.config.dailyLimitUSD - (dailySpentUSD + amountUSD)]

\* checkLimits with the daily-limit branch tested before the per-transaction
\* one and with >= in place of >
TrackerCheckLimits_DailyFirst(session, amountUSD, t) ==
  LET dailySpentUSD == IF t > session.metadata.dailyResetAt
                       THEN 0 ELSE session.metadata.dailySpentUSD
  IN  IF dailySpentUSD + amountUSD >= session.config.dailyLimitUSD
      THEN [allowed |-> FALSE, reason |-> "exceeds remaining daily limit",
            remainingDailyLimitUSD |-> session.config.dailyLimitUSD - dailySpentUSD]
      ELSE IF amountUSD > session.config.perTransactionLimitUSD
      THEN [allowed |-> FALSE, reason |-> "exceeds per-transaction limit",
            remainingDailyLimitUSD |-> session.config.dailyLimitUSD - dailySpentUSD]
      ELSE [allowed |-> TRUE, reason |-> "",
            remainingDailyLimitUSD |->
              session.config.dailyLimitUSD - (dailySpentUSD + amountUSD)]

\* SpendingTracker.checkLimits
TrackerCheckLimits(session, amountUSD, t) ==
  LET dailySpentUSD == IF t > session.metadata.dailyResetAt
                       THEN 0 ELSE session.metadata.dailySpentUSD
  IN  IF amountUSD > session.config.perTransactionLimitUSD
      THEN [allowed |-> FALSE, reason |-> "exceeds per-transaction limit",
            remainingDailyLimitUSD |-> session.config.dailyLimitUSD - dailySpentUSD]
      ELSE IF dailySpentUSD + amountUSD > session.config.dailyLimitUSD
      THEN [allowed |-> FALSE, reason |-> "exceeds remaining daily limit",
            remainingDailyLimitUSD |-> session.config.dailyLimitUSD - dailySpentUSD]
      ELSE [allowed |-> TRUE, reason |-> "",
            remainingDailyLimitUSD |->
              session.config.dailyLimitUSD - (dailySpentUSD + amountUSD)]

\* SpendingTracker.recordSpending
TrackerRecordSpending(session, amountUSD, t) ==
  LET reset == t > session.metadata.dailyResetAt
      m == session.metadata
  IN  [session EXCEPT !.metadata =
        [createdAt |-> m.createdAt,
         lastUsedAt |-> t,
         totalSpentUSD |-> m.totalSpentUSD + amountUSD,
         dailySpentUSD |-> (IF reset THEN 0 ELSE m.dailySpentUSD) + amountUSD,
         dailyResetAt |-> IF reset THEN t + DAY_MS ELSE m.dailyResetAt,
         transactionCount |-> m.transactionCount + 1]]

\* ----------------------------------------------------- SessionKeyManager
\* isSessionValid with > in place of >=
IsSessionValid_StrictlyAfter(session, t) ==
  IF t > session.config.expiryTimestamp THEN FALSE ELSE TRUE

\* SessionKeyManager.isSessionValid
IsSessionValid(session, t) ==
  IF t >= session.config.expiryTimestamp THEN FALSE ELSE TRUE

\* SessionKeyManager.checkLimits
CheckLimits(session, amountUSD, t) ==
  IF ~IsSessionValid(session, t)
  THEN [allowed |-> FALSE, reason |-> "Session has expired",
        remainingDailyLimitUSD |-> 0]
  ELSE TrackerCheckLimits(session, amountUSD, t)

\* validateConfig without the 24-hour maximum
ValidateConfig_NoMaxDuration(config, t) ==
  IF config.dailyLimitUSD <= 0
  THEN "Daily limit must be greater than 0"
  ELSE IF config.perTransactionLimitUSD <= 0
  THEN "Per-transaction limit must be greater than 0"
  ELSE IF config.perTransactionLimitUSD > config.dailyLimitUSD
  THEN "Per-transaction limit cannot exceed daily limit"
  ELSE IF config.expiryTimestamp <= t
  THEN "Session expiry must be in the future"
  ELSE IF Len(config.allowedChains) = 0
  THEN "At least one allowed chain must be specified"
  ELSE "ok"

\* SessionKeyManager.validateConfig: the message of the error it throws
ValidateConfig(config, t) ==
  IF config.dailyLimitUSD <= 0
  THEN "Daily limit must be greater than 0"
  ELSE IF config.perTransactionLimitUSD <= 0
  THEN "Per-transaction limit must be greater than 0"
  ELSE IF config.perTransactionLimitUSD > config.dailyLimitUSD
  THEN "Per-transaction limit cannot exceed daily limit"
  ELSE IF config.expiryTimestamp <= t
  THEN "Session expiry must be in the future"
  ELSE IF config.expiryTimestamp > t + DAY_MS
  THEN "Session duration cannot exceed 24 hours"
  ELSE IF Len(config.allowedChains) = 0
  THEN "At least one allowed chain must be specified"
  ELSE "ok"

\* the SessionKeyConfig values callers pass at time t
Configs(t) ==
  [dailyLimitUSD : 0..MaxLimit,
   perTransactionLimitUSD : 0..MaxLimit,
   expiryTimestamp : {t, t + 1, t + DAY_MS, t + DAY_MS + 1},
   allowedChains : ChainSets]

\* the session record createSession builds
NewSession(keyHash, config, t) ==
  [keyHash |-> keyHash,
   config |-> config,
   metadata |-> [createdAt |-> t, lastUsedAt |-> t, totalSpentUSD |-> 0,
                 dailySpentUSD |-> 0, dailyResetAt |-> t + DAY_MS,
                 transactionCount |-> 0]]

\* a key hash no session has had: that of a fresh random key pair
FreshKey(k) ==
  /\ obj[k] = NoSession
  /\ store[k] = NoSession
  /\ \A j \in KeyHashes : j < k => obj[j] # NoSession

\* SessionKeyManager.createSession
CreateSession(k, config) ==
  /\ FreshKey(k)
  /\ IF ValidateConfig(config, now) # "ok"
     THEN /\ ret' = [op |-> "createSession", error |-> "SESSION_INVALID",
                     message |-> ValidateConfig(config, now)]
          /\ UNCHANGED <<store, obj>>
     ELSE /\ store' = [store EXCEPT ![k] = NewSession(k, config, now)]
          /\ obj' = [obj EXCEPT ![k] = NewSession(k, config, now)]
          /\ ret' = [op |-> "createSession", error |-> "none", message |-> ""]
  /\ UNCHANGED <<now, currentSession, issued, tokenCache, flows>>
  /\ UNCHANGED xvars

\* AgentWallet.init: createSession with the wallet's session config
WalletInit(k, config) ==
  /\ currentSession = 0
  /\ FreshKey(k)
  /\ IF ValidateConfig(config, now) # "ok"
     THEN /\ ret' = [op |-> "init", error |-> "SESSION_INVALID",
                     message |-> ValidateConfig(config, now)]
          /\ UNCHANGED <<store, obj, currentSession>>
     ELSE /\ store' = [store EXCEPT ![k] = NewSession(k, config, now)]
          /\ obj' = [obj EXCEPT ![k] = NewSession(k, config, now)]
          /\ currentSession' = k
          /\ ret' = [op |-> "init", error |-> "none", message |-> ""]
  /\ UNCHANGED <<now, issued, tokenCache, flows>>
  /\ UNCHANGED xvars

\* SessionKeyManager.importSession of a session provisioned elsewhere
ImportSession(k, config) ==
  /\ FreshKey(k)
  /\ store' = [store EXCEPT ![k] = NewSession(k, config, now)]
  /\ obj' = [obj EXCEPT ![k] = NewSession(k, config, now)]
  /\ ret' = [op |-> "importSession", error |-> "none"]
  /\ UNCHANGED <<now, currentSession, issued, tokenCache, flows>>
  /\ UNCHANGED xvars

\* AgentWallet.importSession
WalletImportSession(k, config, wellFormed) ==
  /\ FreshKey(k)
  /\ IF ~wellFormed
     THEN /\ ret' = [op |-> "wallet.importSession", error |-> "Invalid session data"]
          /\ UNCHANGED <<store, obj, currentSession>>
     ELSE /\ store' = [store EXCEPT ![k] = NewSession(k, config, now)]
          /\ obj' = [obj EXCEPT ![k] = NewSession(k, config, now)]
          /\ currentSession' = k
          /\ ret' = [op |-> "wallet.importSession", error |-> "none"]
  /\ UNCHANGED <<now, issued, tokenCache, flows>>
  /\ UNCHANGED xvars

\* SessionKeyManager.revokeSession
RevokeSession(k) ==
  /\ store' = [store EXCEPT ![k] = NoSession]
  /\ ret' = [op |-> "revokeSession", keyHash |-> k]
  /\ UNCHANGED <<now, obj, currentSession, issued, tokenCache, flows>>
  /\ UNCHANGED xvars

\* AgentWallet.revokeSession
WalletRevokeSession ==
  /\ IF currentSession # 0
     THEN /\ store' = [store EXCEPT ![currentSession] = NoSession]
          /\ currentSession' = 0
     ELSE UNCHANGED <<store, currentSession>>
  /\ ret' = [op |-> "wallet.revokeSession", keyHash |-> currentSession]
  /\ UNCHANGED <<now, obj, issued, tokenCache, flows>>
  /\ UNCHANGED xvars

\* SessionKeyManager.recordSpending: the tracker mutates the caller's object,
\* saveSession writes it to localStorage in the same synchronous run
RecordSpending(k, amountUSD) ==
  /\ obj' = [obj EXCEPT ![k] = TrackerRecordSpending(obj[k], amountUSD, now)]
  /\ store' = [store EXCEPT ![k] = TrackerRecordSpending(obj[k], amountUSD, now)]

\* ---------------------------------------------------------- payment flows
\* The part up to the first await after checkLimits of
\* X402Client.handleX402Flow, AgentWallet.pay and
\* UCPCredentialProvider.processCheckout: the limit check on the session
\* object the caller passed (AgentWallet.pay: this.currentSession).
FlowCheck(f, kind, k, amountUSD) ==
  /\ flows[f].pc = "idle"
  /\ obj[k] # NoSession
  /\ kind = "pay" => k = currentSession
  /\ LET r == CheckLimits(obj[k], amountUSD, now)
     IN  /\ ret' = [op |-> "checkLimits", keyHash |-> k, amountUSD |-> amountUSD,
                    result |-> r]
         /\ flows' = [flows EXCEPT ![f] =
              IF r.allowed
              THEN [pc |-> "checked", kind |-> kind, keyHash |-> k,
                    amountUSD |-> amountUSD]
              ELSE IdleFlow]
  /\ UNCHANGED <<now, store, obj, currentSession, issued, tokenCache>>
  /\ UNCHANGED xvars

\* The step between the check and the recording fails: PaymentSigner.sign
\* or the transfer throws (UCP's tokenizePayment cannot), nothing is recorded.
FlowAbort(f) ==
  /\ flows[f].pc = "checked"
  /\ flows[f].kind # "ucp"
  /\ flows' = [flows EXCEPT ![f] = IdleFlow]
  /\ ret' = [op |-> "flow", error |-> "failed before recording"]
  /\ UNCHANGED <<now, store, obj, currentSession, issued, tokenCache>>
  /\ UNCHANGED xvars

\* The await between check and recording completes and recordSpending runs.
\* AgentWallet.pay reads this.currentSession again at this point.
FlowRecord(f) ==
  /\ flows[f].pc = "checked"
  /\ LET k == IF flows[f].kind = "pay" THEN currentSession ELSE flows[f].keyHash
     IN  IF k = 0
         THEN /\ ret' = [op |-> "flow", error |-> "TypeError"]
              /\ UNCHANGED <<store, obj>>
         ELSE /\ obj[k].metadata.transactionCount < MaxTx
              /\ RecordSpending(k, flows[f].amountUSD)
              /\ ret' = [op |-> "recordSpending", keyHash |-> k,
                         amountUSD |-> flows[f].amountUSD]
  /\ flows' = [flows EXCEPT ![f] = IdleFlow]
  /\ UNCHANGED <<now, currentSession, issued, tokenCache>>
  /\ UNCHANGED xvars

\* no flow is between its limit check and its recording
AllIdle == \A f \in FlowIds : flows[f].pc = "idle"

\* ------------------------------------------------- payments and chains
\* params.chain of a payment and targetChain of a route: wormhole chain ids
PaymentChains == {30, 10004}
\* executeDirectTransfer: the chains RPC_URLS has an entry for
RpcChains == {10002, 10003, 10004, 10005}

\* AgentWallet.pay(params) up to its first await after checkLimits, with the
\* chain the caller asks for (a wallet with no session runs init first)
PayOnChain(f, chain, amountUSD) ==
  /\ flows[f].pc = "idle"
  /\ currentSession # 0
  /\ LET r == CheckLimits(obj[currentSession], amountUSD, now)
     IN  /\ ret' = [op |-> "checkLimits", keyHash |-> currentSession,
                    amountUSD |-> amountUSD, result |-> r]
         /\ flows' = [flows EXCEPT ![f] =
              IF r.allowed
              THEN [pc |-> "checked", kind |-> "pay", keyHash |-> currentSession,
                    amountUSD |-> amountUSD, chain |-> chain]
              ELSE IdleFlow]
  /\ UNCHANGED <<now, store, obj, currentSession, issued, tokenCache>>
  /\ UNCHANGED xvars

\* AgentWallet.pay: executeDirectTransfer throws for a chain without an RPC
\* URL, or sends the transfer, which fails or is confirmed; then
\* recordSpending runs on this.currentSession
ExecuteDirectTransfer(f, outcome) ==
  /\ flows[f].pc = "checked"
  /\ flows[f].kind = "pay"
  /\ "chain" \in DOMAIN flows[f]
  /\ IF flows[f].chain \notin RpcChains
     THEN /\ ret' = [op |-> "pay", error |-> "CHAIN_NOT_SUPPORTED"]
          /\ flows' = [flows EXCEPT ![f] = IdleFlow]
          /\ UNCHANGED <<store, obj>>
     ELSE IF outcome = "throws"
     THEN /\ ret' = [op |-> "pay", error |-> "transfer failed"]
          /\ flows' = [flows EXCEPT ![f] = IdleFlow]
          /\ UNCHANGED <<store, obj>>
     ELSE IF currentSession = 0
     THEN /\ ret' = [op |-> "pay", error |-> "TypeError"]
          /\ flows' = [flows EXCEPT ![f] = IdleFlow]
          /\ UNCHANGED <<store, obj>>
     ELSE /\ obj[currentSession].metadata.transactionCount < MaxTx
          /\ RecordSpending(currentSession, flows[f].amountUSD)
          /\ ret' = [op |-> "recordSpending", keyHash |-> currentSession,
                     amountUSD |-> flows[f].amountUSD, chain |-> flows[f].chain]
          /\ flows' = [flows EXCEPT ![f].pc = "recorded"]
  /\ UNCHANGED <<now, currentSession, issued, tokenCache>>
  /\ UNCHANGED xvars

\* the key hashes of the sessions one wallet makes, one after the other
WalletKeyHashes == 1..MaxWalletSessions

\* AgentWallet.pay(params) on a wallet with no current session, up to its
\* first await after checkLimits: `if (!this.currentSession) await this.init()`
\* creates a session with the wallet's session config, then pay goes on as
\* with any session
PayWithInit(f, k, config, chain, amountUSD) ==
  /\ flows[f].pc = "idle"
  /\ currentSession = 0
  /\ FreshKey(k)
  /\ IF ValidateConfig(config, now) # "ok"
     THEN /\ ret' = [op |-> "pay", error |-> "SESSION_INVALID",
                     message |-> ValidateConfig(config, now)]
          /\ UNCHANGED <<store, obj, currentSession, flows>>
     ELSE LET session == NewSession(k, config, now)
              r == CheckLimits(session, amountUSD, now)
          IN  /\ store' = [store EXCEPT ![k] = session]
              /\ obj' = [obj EXCEPT ![k] = session]
              /\ currentSession' = k
              /\ ret' = [op |-> "checkLimits", keyHash |-> k,
                         amountUSD |-> amountUSD, result |-> r]
              /\ flows' = [flows EXCEPT ![f] =
                   IF r.allowed
                   THEN [pc |-> "checked", kind |-> "pay", keyHash |-> k,
                         amountUSD |-> amountUSD, chain |-> chain]
                   ELSE IdleFlow]
  /\ UNCHANGED <<now, issued, tokenCache>>
  /\ UNCHANGED xvars

\* CrossChainRouter.findOptimalRoute: no route to a target chain outside the
\* session's allowedChains; otherwise whether one is found depends on the
\* balances and fees
FindOptimalRoute(k, targetChain, found) ==
  /\ obj[k] # NoSession
  /\ ret' = IF \A j \in DOMAIN obj[k].config.allowedChains :
                  obj[k].config.allowedChains[j] # targetChain
            THEN [op |-> "findOptimalRoute", keyHash |-> k, targetChain |-> targetChain,
                  success |-> FALSE,
                  error |-> "Target chain is not in allowed chains for this session"]
            ELSE [op |-> "findOptimalRoute", keyHash |-> k, targetChain |-> targetChain,
                  success |-> found,
                  error |-> IF found THEN "" ELSE "no route"]
  /\ UNCHANGED <<now, store, obj, currentSession, issued, tokenCache, flows>>
  /\ UNCHANGED xvars

\* ------------------------------------------------------ PaymentTokenizer
Min(a, b) == IF a < b THEN a ELSE b

\* the ttl arguments callers pass to tokenize (0: none given)
Ttls == {0, 1, 2 * DAY_MS}

\* tokenize with the token's lifetime not capped by the session's expiry
Tokenize_NoCap(k, customTtlMs) ==
  /\ Len(issued) < MaxTokens
  /\ obj[k] # NoSession
  /\ LET ttl == IF customTtlMs # 0 THEN customTtlMs ELSE TOKEN_TTL_MS
         token == [keyHash |-> k, expiresAt |-> now + ttl,
                   limits |-> [dailyLimitUSD |-> obj[k].config.dailyLimitUSD,
                               perTransactionLimitUSD |->
                                 obj[k].config.perTransactionLimitUSD]]
     IN  /\ issued' = Append(issued, token)
         /\ tokenCache' = tokenCache \cup {Len(issued) + 1}
         /\ ret' = [op |-> "tokenize", token |-> Len(issued) + 1]
  /\ UNCHANGED <<now, store, obj, currentSession, flows>>
  /\ UNCHANGED xvars

\* PaymentTokenizer.tokenize; every token string carries a fresh nonce
Tokenize(k, customTtlMs) ==
  /\ Len(issued) < MaxTokens
  /\ obj[k] # NoSession
  /\ LET ttl == IF customTtlMs # 0 THEN customTtlMs ELSE TOKEN_TTL_MS
         expiresAt == Min(now + ttl, obj[k].config.expiryTimestamp)
         token == [keyHash |-> k, expiresAt |-> expiresAt,
                   limits |-> [dailyLimitUSD |-> obj[k].config.dailyLimitUSD,
                               perTransactionLimitUSD |->
                                 obj[k].config.perTransactionLimitUSD]]
     IN  /\ issued' = Append(issued, token)
         /\ tokenCache' = tokenCache \cup {Len(issued) + 1}
         /\ ret' = [op |-> "tokenize", token |-> Len(issued) + 1]
  /\ UNCHANGED <<now, store, obj, currentSession, flows>>
  /\ UNCHANGED xvars

\* PaymentTokenizer.validate: its result on token string i in cache c at time t
ValidateResult(c, i, t) ==
  IF i \notin c
  THEN IF issued[i].expiresAt < t
       THEN [valid |-> FALSE, reason |-> "Token expired"]
       ELSE [valid |-> FALSE, reason |-> "Token not found in cache - may be stale"]
  ELSE IF issued[i].expiresAt < t
  THEN [valid |-> FALSE, reason |-> "Token expired"]
  ELSE IF obj[issued[i].keyHash].config.expiryTimestamp < t
  THEN [valid |-> FALSE, reason |-> "Underlying session expired"]
  ELSE [valid |-> TRUE, reason |-> ""]

\* PaymentTokenizer.validate: an invalid cached token is dropped from the cache
Validate(i) ==
  /\ i \in 1..Len(issued)
  /\ ret' = [op |-> "validate", token |-> i, result |-> ValidateResult(tokenCache, i, now)]
  /\ tokenCache' = IF ValidateResult(tokenCache, i, now).valid
                   THEN tokenCache ELSE tokenCache \ {i}
  /\ UNCHANGED <<now, store, obj, currentSession, issued, flows>>
  /\ UNCHANGED xvars

\* PaymentTokenizer.revokeAllForSession
RevokeAllForSession(k) ==
  /\ tokenCache' = {i \in tokenCache : issued[i].keyHash # k}
  /\ ret' = [op |-> "revokeAllForSession", keyHash |-> k,
             count |-> Cardinality({i \in tokenCache : issued[i].keyHash = k})]
  /\ UNCHANGED <<now, store, obj, currentSession, issued, flows>>
  /\ UNCHANGED xvars

\* refresh that mints the new token and leaves the old one in the cache
Refresh_KeepOld(i, k) ==
  /\ i \in 1..Len(issued)
  /\ obj[k] # NoSession
  /\ LET validation == ValidateResult(tokenCache, i, now)
         token == [keyHash |-> k,
                   expiresAt |-> Min(now + TOKEN_TTL_MS, obj[k].config.expiryTimestamp),
                   limits |-> [dailyLimitUSD |-> obj[k].config.dailyLimitUSD,
                               perTransactionLimitUSD |->
                                 obj[k].config.perTransactionLimitUSD]]
     IN  IF ~validation.valid
         THEN /\ tokenCache' = tokenCache \ {i}
              /\ issued' = issued
              /\ ret' = [op |-> "refresh", old |-> i, result |-> 0,
                         validation |-> validation]
         ELSE /\ Len(issued) < MaxTokens
              /\ issued' = Append(issued, token)
              /\ tokenCache' = tokenCache \cup {Len(issued) + 1}
              /\ ret' = [op |-> "refresh", old |-> i, result |-> Len(issued) + 1,
                         validation |-> validation]
  /\ UNCHANGED <<now, store, obj, currentSession, flows>>
  /\ UNCHANGED xvars

\* PaymentTokenizer.refresh(oldToken, session): validate(oldToken), which
\* drops an invalid cached token; null (0) when it is not valid; otherwise the
\* old token leaves the cache and tokenize(session) mints with the default ttl.
\* No await separates the three steps.
Refresh(i, k) ==
  /\ i \in 1..Len(issued)
  /\ obj[k] # NoSession
  /\ LET validation == ValidateResult(tokenCache, i, now)
         token == [keyHash |-> k,
                   expiresAt |-> Min(now + TOKEN_TTL_MS, obj[k].config.expiryTimestamp),
                   limits |-> [dailyLimitUSD |-> obj[k].config.dailyLimitUSD,
                               perTransactionLimitUSD |->
                                 obj[k].config.perTransactionLimitUSD]]
     IN  IF ~validation.valid
         THEN /\ tokenCache' = tokenCache \ {i}
              /\ issued' = issued
              /\ ret' = [op |-> "refresh", old |-> i, result |-> 0,
                         validation |-> validation]
         ELSE /\ Len(issued) < MaxTokens
              /\ issued' = Append(issued, token)
              /\ tokenCache' = (tokenCache \ {i}) \cup {Len(issued) + 1}
              /\ ret' = [op |-> "refresh", old |-> i, result |-> Len(issued) + 1,
                         validation |-> validation]
  /\ UNCHANGED <<now, store, obj, currentSession, flows>>
  /\ UNCHANGED xvars

\* ------------------------------------------- X402Client and AgentWallet.fetch
\* the x402 client's view of the body of a response to the initial request
\* (kind "error": fetch rejected, by a network error or by the abort that
\* performFetch arms after paymentTimeoutMs)
InitialResponses ==
  {[kind |-> "error", status |-> 0, parsed |-> FALSE, amount |-> 0, token |-> ""]}
  \cup [kind : {"status"}, status : {200, 500}, parsed : {FALSE},
        amount : {0}, token : {""}]
  \cup {[kind |-> "ucp", status |-> 402, parsed |-> FALSE, amount |-> 0, token |-> ""]}
  \cup {[kind |-> "x402", status |-> 402, parsed |-> FALSE, amount |-> 0, token |-> ""]}
  \cup [kind : {"x402"}, status : {402}, parsed : {TRUE},
        amount : ChallengeAmounts, token : Tokens]

\* what the PAYMENT-REQUIRED header of a second 402 holds
RejectionHeaders == {"absent", "not base64 json", "json without error", "json with error"}

\* what the PAYMENT-RESPONSE header of the retried response holds
SettlementHeaders == {"absent", "success", "failure", "unparsable"}

\* the responses to the retry request
RetryResponses ==
  {[kind |-> "error", status |-> 0, header |-> "absent"]}
  \cup [kind : {"status"}, status : {200, 500}, header : SettlementHeaders]
  \cup [kind : {"status"}, status : {402}, header : RejectionHeaders]

\* X402Client.estimateUSDValue: parseFloat(request.amount), divided by 10^6
\* only when it is above 1_000_000; the stablecoin branch and the other
\* branch compute the same value
EstimateUSDValue(request) ==
  IF request.token \in Stablecoins
  THEN IF request.amount > UNIT THEN request.amount \div UNIT ELSE request.amount
  ELSE IF request.amount > UNIT THEN request.amount \div UNIT ELSE request.amount

\* PaymentSigner.sign: BigInt(1e9), below which an integer amount string is
\* taken as a formatted amount
RAW_AMOUNT_FROM == 1000000000

\* PaymentSigner.sign, the value of the authorization for an integer amount
\* string of a 6-decimal token, in whole tokens (value / 10^6): below 10^9
\* the value is parseUnits(amount, 6) = amount * 10^6, from 10^9 on it is
\* the amount itself
AuthorizationValueUSD(amount) ==
  IF amount < RAW_AMOUNT_FROM THEN amount ELSE amount \div UNIT

\* retryWithPayment: the message of the PAYMENT_FAILED error for a second 402
RejectionMessage(header) ==
  IF header = "json with error"
  THEN "the error the server sent"
  ELSE "Payment was rejected by the server"

\* no AgentWallet.fetch call is in progress
IdleHf ==
  [pc |-> "idle", attempt |-> 0, delay |-> 0, keyHash |-> 0, flow |-> "none",
   trace |-> <<>>,
   abortedAt |-> 0, recorded |-> 0, amount |-> 0, token |-> "", amountUSD |-> 0,
   before |-> NoSession, auditBefore |-> 0, initial |-> 0]

HfOver == hf.pc \in {"idle", "done", "failed"}

\* X402Client.handleFetch is entered and the initial request is sent.
\* trace: what this invocation has done so far; recorded: the recordSpending
\* calls of the whole fetch call; before, auditBefore: the session ledger and
\* the length of the wallet's audit log when the invocation started.
NewInvocation(k, attempt, abortedAt, recorded) ==
  [pc |-> "initial", attempt |-> attempt, delay |-> 0, keyHash |-> k, flow |-> "none",
   trace |-> <<"request">>, abortedAt |-> abortedAt, recorded |-> recorded,
   amount |-> 0, token |-> "", amountUSD |-> 0,
   before |-> obj[k].metadata, auditBefore |-> Len(auditMem[1]), initial |-> 0]

\* the errors handleFetch throws; a message is the sequence of its parts
PlainError(name) ==
  [op |-> "handleFetch", error |-> name, agentError |-> FALSE,
   retryable |-> FALSE, message |-> <<name>>, response |-> "none", status |-> 0,
   settlement |-> "absent"]

AgentPaymentError(code, message, retryable) ==
  [op |-> "handleFetch", error |-> code, agentError |-> TRUE,
   retryable |-> retryable, message |-> message, response |-> "none",
   status |-> 0, settlement |-> "absent"]

\* AgentPaymentError.fromLimitExceeded
FromLimitExceeded(reason) ==
  AgentPaymentError("LIMIT_EXCEEDED", <<"Spending limit exceeded: ", reason>>, FALSE)

\* handleFetch returns a response
Returned(which, status, settlement) ==
  [op |-> "handleFetch", error |-> "none", agentError |-> FALSE,
   retryable |-> FALSE, message |-> <<>>, response |-> which, status |-> status,
   settlement |-> settlement]

\* AgentWallet.withRetry: Math.pow(2, attempt) * 1000, attempt counted from 0
BackoffDelay(attempt) == (2 ^ attempt) * 1000

\* AgentWallet.withRetry, the catch block: where the fetch call stands after
\* its handleFetch invocation threw err; delay: the setTimeout it awaits
WithRetryCatch(h, err) ==
  IF err.agentError /\ ~err.retryable
  THEN [h EXCEPT !.pc = "failed"]
  ELSE IF h.attempt < MaxRetries
  THEN [h EXCEPT !.pc = "backoff", !.delay = BackoffDelay(h.attempt)]
  ELSE [h EXCEPT !.pc = "failed"]

\* handleFetch throws err
Throw(h, err) ==
  /\ hf' = WithRetryCatch(h, err)
  /\ ret' = err

\* AgentWallet.fetch: the first handleFetch invocation of the call, on
\* this.currentSession (with no session yet the call runs init first: WalletInit)
WalletFetch ==
  /\ HfOver
  /\ currentSession # 0
  /\ hf' = NewInvocation(currentSession, 0, 0, 0)
  /\ ret' = [op |-> "fetch"]
  /\ UNCHANGED <<now, store, obj, currentSession, issued, tokenCache, flows>>
  /\ UNCHANGED <<auditStore, auditMem, auditAcked, auditN, nvars>>

\* AgentWallet.withRetry: the delay is over and fn() runs again, with the
\* same request options
WithRetryAgain ==
  /\ hf.pc = "backoff"
  /\ currentSession # 0
  /\ hf' = NewInvocation(currentSession, hf.attempt + 1,
                         IF hf.abortedAt # 0 THEN 1 ELSE 0, hf.recorded)
  /\ ret' = [op |-> "fetch"]
  /\ UNCHANGED <<now, store, obj, currentSession, issued, tokenCache, flows>>
  /\ UNCHANGED <<auditStore, auditMem, auditAcked, auditN, nvars>>

\* The caller aborts the AbortSignal it passed in options.signal.
\* performFetch passes fetch its own controller's signal in place of the
\* caller's, so nothing in the flow observes it.
CallerAbort ==
  /\ ~HfOver
  /\ hf.abortedAt = 0
  /\ hf' = [hf EXCEPT !.abortedAt = Len(hf.trace)]
  /\ UNCHANGED <<now, store, obj, currentSession, issued, tokenCache, flows, ret>>
  /\ UNCHANGED <<auditStore, auditMem, auditAcked, auditN, nvars>>

\* handleFetch with a second 402 answered by signing again
HandleFetchRetryResponse_SignAgain(resp) ==
  /\ hf.pc = "retry"
  /\ IF resp.kind = "error"
     THEN Throw(hf, PlainError("fetch failed"))
     ELSE IF resp.status = 402
     THEN /\ hf' = [hf EXCEPT !.pc = "signing"]
          /\ ret' = [op |-> "fetch"]
     ELSE /\ hf' = [hf EXCEPT !.pc = "done"]
          /\ ret' = Returned("retry", resp.status, resp.header)
  /\ UNCHANGED <<now, store, obj, currentSession, issued, tokenCache, flows>>
  /\ UNCHANGED <<auditStore, auditMem, auditAcked, auditN, nvars>>

\* handleFetch with the rejection message never decoded
HandleFetchRetryResponse_DefaultMessage(resp) ==
  /\ hf.pc = "retry"
  /\ IF resp.kind = "error"
     THEN Throw(hf, PlainError("fetch failed"))
     ELSE IF resp.status = 402
     THEN Throw(hf, AgentPaymentError("PAYMENT_FAILED",
                                      <<"Payment was rejected by the server">>, FALSE))
     ELSE /\ hf' = [hf EXCEPT !.pc = "done"]
          /\ ret' = Returned("retry", resp.status, resp.header)
  /\ UNCHANGED <<now, store, obj, currentSession, issued, tokenCache, flows>>
  /\ UNCHANGED <<auditStore, auditMem, auditAcked, auditN, nvars>>

\* handleFetch with a denied limit check reported as a network error
HandleFetchInitial_DenialRetryable(resp) ==
  /\ hf.pc = "initial"
  /\ IF resp.kind = "error"
     THEN Throw(hf, PlainError("fetch failed"))
     ELSE IF resp.kind = "status"
     THEN /\ hf' = [hf EXCEPT !.pc = "done", !.initial = resp.status]
          /\ ret' = Returned("initial", resp.status, "absent")
     ELSE IF resp.kind = "ucp"
     THEN /\ hf' = [hf EXCEPT !.pc = "ucp", !.initial = 402, !.flow = "ucp"]
          /\ ret' = [op |-> "fetch"]
     ELSE IF ~resp.parsed
     THEN Throw([hf EXCEPT !.initial = 402, !.flow = "x402"],
                AgentPaymentError("X402_PARSE_ERROR",
                  <<"Failed to parse x402 payment requirements from 402 response">>,
                  FALSE))
     ELSE LET amountUSD == EstimateUSDValue(resp)
              limitResult == CheckLimits(obj[hf.keyHash], amountUSD, now)
              h == [hf EXCEPT !.initial = 402, !.flow = "x402",
                              !.amount = resp.amount, !.token = resp.token,
                              !.amountUSD = amountUSD]
          IN  IF ~limitResult.allowed
              THEN Throw([h EXCEPT !.trace = Append(hf.trace, "check denied")],
                         AgentPaymentError("NETWORK_ERROR",
                              <<"Network error: ", limitResult.reason>>, TRUE))
              ELSE /\ hf' = [h EXCEPT !.pc = "signing",
                                       !.trace = Append(hf.trace, "check")]
                   /\ ret' = [op |-> "checkLimits", keyHash |-> hf.keyHash,
                              amountUSD |-> amountUSD, result |-> limitResult]
  /\ UNCHANGED <<now, store, obj, currentSession, issued, tokenCache, flows>>
  /\ UNCHANGED <<auditStore, auditMem, auditAcked, auditN, nvars>>

\* X402Client.handleFetch from the response to the initial request up to the
\* first await of handleX402Flow (signer.sign) or of handleUCPFlow
HandleFetchInitial(resp) ==
  /\ hf.pc = "initial"
  /\ IF resp.kind = "error"
     THEN Throw(hf, PlainError("fetch failed"))
     ELSE IF resp.kind = "status"
     THEN /\ hf' = [hf EXCEPT !.pc = "done", !.initial = resp.status]
          /\ ret' = Returned("initial", resp.status, "absent")
     ELSE IF resp.kind = "ucp"
     THEN /\ hf' = [hf EXCEPT !.pc = "ucp", !.initial = 402, !.flow = "ucp"]
          /\ ret' = [op |-> "fetch"]
     ELSE IF ~resp.parsed
     THEN Throw([hf EXCEPT !.initial = 402, !.flow = "x402"],
                AgentPaymentError("X402_PARSE_ERROR",
                  <<"Failed to parse x402 payment requirements from 402 response">>,
                  FALSE))
     ELSE LET amountUSD == EstimateUSDValue(resp)
              limitResult == CheckLimits(obj[hf.keyHash], amountUSD, now)
              h == [hf EXCEPT !.initial = 402, !.flow = "x402",
                              !.amount = resp.amount, !.token = resp.token,
                              !.amountUSD = amountUSD]
          IN  IF ~limitResult.allowed
              THEN Throw([h EXCEPT !.trace = Append(hf.trace, "check denied")],
                         FromLimitExceeded(limitResult.reason))
              ELSE /\ hf' = [h EXCEPT !.pc = "signing",
                                       !.trace = Append(hf.trace, "check")]
                   /\ ret' = [op |-> "checkLimits", keyHash |-> hf.keyHash,
                              amountUSD |-> amountUSD, result |-> limitResult]
  /\ UNCHANGED <<now, store, obj, currentSession, issued, tokenCache, flows>>
  /\ UNCHANGED <<auditStore, auditMem, auditAcked, auditN, nvars>>

\* handleX402Flow: PaymentSigner.sign resolves with the payment payload, or
\* rejects (the session key is not a usable private key)
X402Sign(signed) ==
  /\ hf.pc = "signing"
  /\ IF signed
     THEN /\ hf' = [hf EXCEPT !.pc = "signed", !.trace = Append(hf.trace, "sign")]
          /\ ret' = [op |-> "sign", valueUSD |-> AuthorizationValueUSD(hf.amount)]
     ELSE Throw(hf, PlainError("sign failed"))
  /\ UNCHANGED <<now, store, obj, currentSession, issued, tokenCache, flows>>
  /\ UNCHANGED <<auditStore, auditMem, auditAcked, auditN, nvars>>

\* handleX402Flow with the retry request sent before the spending is recorded
X402Record_AfterRetry ==
  /\ hf.pc = "signed"
  /\ RecordSpending(hf.keyHash, hf.amountUSD)
  /\ hf' = [hf EXCEPT !.pc = "retry", !.recorded = hf.recorded + 1,
                      !.trace = hf.trace \o <<"retry", "record">>]
  /\ ret' = [op |-> "recordSpending", keyHash |-> hf.keyHash,
             amountUSD |-> hf.amountUSD]
  /\ UNCHANGED <<now, currentSession, issued, tokenCache, flows>>
  /\ UNCHANGED <<auditStore, auditMem, auditAcked, auditN, nvars>>

\* handleX402Flow: sessionManager.recordSpending, up to the await on it
X402Record ==
  /\ hf.pc = "signed"
  /\ RecordSpending(hf.keyHash, hf.amountUSD)
  /\ hf' = [hf EXCEPT !.pc = "recorded", !.recorded = hf.recorded + 1,
                      !.trace = Append(hf.trace, "record")]
  /\ ret' = [op |-> "recordSpending", keyHash |-> hf.keyHash,
             amountUSD |-> hf.amountUSD]
  /\ UNCHANGED <<now, currentSession, issued, tokenCache, flows>>
  /\ UNCHANGED <<auditStore, auditMem, auditAcked, auditN, nvars>>

\* retryWithPayment: the request with the PAYMENT-SIGNATURE header is sent
X402SendRetry ==
  /\ hf.pc = "recorded"
  /\ hf' = [hf EXCEPT !.pc = "retry", !.trace = Append(hf.trace, "retry")]
  /\ ret' = [op |-> "retryWithPayment"]
  /\ UNCHANGED <<now, store, obj, currentSession, issued, tokenCache, flows>>
  /\ UNCHANGED <<auditStore, auditMem, auditAcked, auditN, nvars>>

\* retryWithPayment and the rest of handleX402Flow, from the response to the
\* retry request on
HandleFetchRetryResponse(resp) ==
  /\ hf.pc = "retry"
  /\ IF resp.kind = "error"
     THEN Throw(hf, PlainError("fetch failed"))
     ELSE IF resp.status = 402
     THEN Throw(hf, AgentPaymentError("PAYMENT_FAILED",
                                      <<RejectionMessage(resp.header)>>, FALSE))
     ELSE /\ hf' = [hf EXCEPT !.pc = "done"]
          /\ ret' = Returned("retry", resp.status, resp.header)
  /\ UNCHANGED <<now, store, obj, currentSession, issued, tokenCache, flows>>
  /\ UNCHANGED <<auditStore, auditMem, auditAcked, auditN, nvars>>

\* handleUCPFlow: UCPClient.initiateCheckoutFlow creates the checkout, signs
\* the credential with the session key and completes the checkout; then the
\* original request is sent again
UcpCheckout(outcome) ==
  /\ hf.pc = "ucp"
  /\ IF outcome = "create failed"
     THEN Throw(hf, AgentPaymentError("UCP_NEGOTIATION_FAILED",
                                      <<"UCP checkout failed">>, TRUE))
     ELSE IF outcome = "complete failed"
     THEN Throw([hf EXCEPT !.trace = Append(hf.trace, "sign")],
                AgentPaymentError("UCP_NEGOTIATION_FAILED",
                                  <<"UCP checkout failed">>, TRUE))
     ELSE /\ hf' = [hf EXCEPT !.pc = "ucpRetry",
                              !.trace = hf.trace \o <<"sign", "retry">>]
          /\ ret' = [op |-> "initiateCheckoutFlow"]
  /\ UNCHANGED <<now, store, obj, currentSession, issued, tokenCache, flows>>
  /\ UNCHANGED <<auditStore, auditMem, auditAcked, auditN, nvars>>

\* handleUCPFlow: the response to the repeated original request
UcpRetryResponse(resp) ==
  /\ hf.pc = "ucpRetry"
  /\ IF resp.kind = "error"
     THEN Throw(hf, AgentPaymentError("UCP_NEGOTIATION_FAILED",
                                      <<"UCP checkout failed">>, TRUE))
     ELSE /\ hf' = [hf EXCEPT !.pc = "done"]
          /\ ret' = Returned("retry", resp.status, "absent")
  /\ UNCHANGED <<now, store, obj, currentSession, issued, tokenCache, flows>>
  /\ UNCHANGED <<auditStore, auditMem, auditAcked, auditN, nvars>>

\* ----------------------------------------------------------- AlertManager
\* DEFAULT_CONFIG.spendingThresholds, [0.5, 0.8, 0.9, 1.0], in tenths
SpendingThresholds == {5, 8, 9, 10}

\* ratio >= tenths / 10 for ratio = dailySpentUSD / dailyLimitUSD, as the
\* JS division gives it: x / 0 is Infinity, -Infinity or NaN
RatioAtLeast(spent, limit, tenths) ==
  IF limit > 0 THEN 10 * spent >= tenths * limit
  ELSE IF limit < 0 THEN 10 * spent <= tenths * limit
  ELSE spent > 0

\* ratio < tenths / 10
RatioBelow(spent, limit, tenths) ==
  IF limit > 0 THEN 10 * spent < tenths * limit
  ELSE IF limit < 0 THEN 10 * spent > tenths * limit
  ELSE spent < 0

\* every threshold reached notifies, latched or not
CheckSpendingNotifies_NoLatch(latched, k, spent, limit) ==
  {t \in SpendingThresholds : RatioAtLeast(spent, limit, t)}

\* checkSpending, the first loop: the thresholds whose alert is notified; the
\* latch id is `${sessionKeyHash}_${threshold}`
CheckSpendingNotifies(latched, k, spent, limit) ==
  {t \in SpendingThresholds :
     RatioAtLeast(spent, limit, t) /\ <<k, t>> \notin latched}

\* the reset drops every latch there is
CheckSpendingReset_AllSessions(latched, k) == {}

\* checkSpending, the second loop: the latches left when those of the
\* session are deleted
CheckSpendingReset(latched, k) == {a \in latched : a[1] # k}

\* AlertManager.triggeredAlerts after checkSpending(k, spent, limit)
AfterCheckSpending(latched, k, spent, limit) ==
  LET added == latched \cup
                 {<<k, t>> : t \in CheckSpendingNotifies(latched, k, spent, limit)}
  IN  IF RatioBelow(spent, limit, 1)
      THEN CheckSpendingReset(added, k)
      ELSE added

\* the record of one checkSpending call: its arguments and the thresholds
\* whose alert the callbacks received
AlertCall(latched, k, spent, limit) ==
  [keyHash |-> k, spent |-> spent, limit |-> limit,
   notified |-> CheckSpendingNotifies(latched, k, spent, limit)]

\* session key hashes checkSpending is called with
AlertKeys == {1, 2}
\* (dailySpentUSD, dailyLimitUSD) pairs: below a tenth, at a tenth, at and
\* between the thresholds, and a zero limit
AlertInputs ==
  [spent : {0, 1, 5, 9, 10}, limit : {10}] \cup [spent : {0, 1}, limit : {0}]

\* AlertManager.checkSpending called by a monitoring caller
CheckSpending(k, spent, limit) ==
  /\ Len(alertCalls) < MaxChecks
  /\ triggeredAlerts' = AfterCheckSpending(triggeredAlerts, k, spent, limit)
  /\ alertCalls' = Append(alertCalls, AlertCall(triggeredAlerts, k, spent, limit))
  /\ ret' = [op |-> "checkSpending"]
  /\ UNCHANGED <<now, store, obj, currentSession, issued, tokenCache, flows>>
  /\ UNCHANGED <<hf, auditStore, auditMem, auditAcked, auditN>>
  /\ UNCHANGED <<pendingApprovals, qvars, svars, pvars>>

\* APPROVAL_WINDOW_MS
APPROVAL_WINDOW_MS == 5 * 60 * 1000
\* transaction ids approvals are requested for
TxIds == 1..MaxApprovals
\* the instants around the end of an approval window
ApprovalTimePoints == {a + b * APPROVAL_WINDOW_MS : a \in 0..MaxTick, b \in 0..1}
NoApproval == [requestedAt |-> -1]

\* AlertManager.requestApproval: a new entry replaces the one the id had
RequestApproval(tx) ==
  /\ pendingApprovals' = [pendingApprovals EXCEPT ![tx] =
       [requestedAt |-> now, expiresAt |-> now + APPROVAL_WINDOW_MS,
        approved |-> FALSE, approvedBy |-> "none"]]
  /\ ret' = [op |-> "requestApproval", tx |-> tx]
  /\ UNCHANGED <<now, store, obj, currentSession, issued, tokenCache, flows>>
  /\ UNCHANGED <<hf, auditStore, auditMem, auditAcked, auditN>>
  /\ UNCHANGED <<triggeredAlerts, alertCalls, qvars, svars, pvars>>

\* AlertManager.approveTransaction; approval: the entry the call found
ApproveTransaction(tx, approverKey) ==
  /\ LET approval == pendingApprovals[tx]
     IN  IF approval = NoApproval
         THEN /\ ret' = [op |-> "approveTransaction", tx |-> tx,
                         approval |-> approval, result |-> FALSE]
              /\ UNCHANGED pendingApprovals
         ELSE IF now > approval.expiresAt
         THEN /\ pendingApprovals' = [pendingApprovals EXCEPT ![tx] = NoApproval]
              /\ ret' = [op |-> "approveTransaction", tx |-> tx,
                         approval |-> approval, result |-> FALSE]
         ELSE /\ pendingApprovals' = [pendingApprovals EXCEPT ![tx] =
                   [approval EXCEPT !.approved = TRUE, !.approvedBy = approverKey]]
              /\ ret' = [op |-> "approveTransaction", tx |-> tx,
                         approval |-> approval, result |-> TRUE]
  /\ UNCHANGED <<now, store, obj, currentSession, issued, tokenCache, flows>>
  /\ UNCHANGED <<hf, auditStore, auditMem, auditAcked, auditN>>
  /\ UNCHANGED <<triggeredAlerts, alertCalls, qvars, svars, pvars>>

\* AlertManager.checkApproval
CheckApproval(tx) ==
  /\ LET approval == pendingApprovals[tx]
     IN  IF approval = NoApproval
         THEN /\ ret' = [op |-> "checkApproval", tx |-> tx, approval |-> approval,
                         result |-> [approved |-> FALSE, expired |-> FALSE]]
              /\ UNCHANGED pendingApprovals
         ELSE IF now > approval.expiresAt
         THEN /\ pendingApprovals' = [pendingApprovals EXCEPT ![tx] = NoApproval]
              /\ ret' = [op |-> "checkApproval", tx |-> tx, approval |-> approval,
                         result |-> [approved |-> FALSE, expired |-> TRUE]]
         ELSE /\ ret' = [op |-> "checkApproval", tx |-> tx, approval |-> approval,
                         result |-> [approved |-> approval.approved,
                                     expired |-> FALSE]]
              /\ UNCHANGED pendingApprovals
  /\ UNCHANGED <<now, store, obj, currentSession, issued, tokenCache, flows>>
  /\ UNCHANGED <<hf, auditStore, auditMem, auditAcked, auditN>>
  /\ UNCHANGED <<triggeredAlerts, alertCalls, qvars, svars, pvars>>

\* AlertManager.cleanupExpiredApprovals
CleanupExpiredApprovals ==
  /\ pendingApprovals' =
       [tx \in TxIds |->
          IF pendingApprovals[tx] # NoApproval /\ pendingApprovals[tx].expiresAt < now
          THEN NoApproval ELSE pendingApprovals[tx]]
  /\ ret' = [op |-> "cleanupExpiredApprovals"]
  /\ UNCHANGED <<now, store, obj, currentSession, issued, tokenCache, flows>>
  /\ UNCHANGED <<hf, auditStore, auditMem, auditAcked, auditN>>
  /\ UNCHANGED <<triggeredAlerts, alertCalls, qvars, svars, pvars>>

\* Date.now() advances towards and past the end of an approval window
TickApproval ==
  /\ \E t \in ApprovalTimePoints : t > now /\ now' = t
  /\ ret' = NoRet
  /\ UNCHANGED <<store, obj, currentSession, issued, tokenCache, flows>>
  /\ UNCHANGED xvars

\* ---------------------------------------------------------- PaymentSigner
\* secp256k1 private keys; the address of a key is written Address(sk)
PrivateKeys == 1..MaxKeys
Address(sk) == 100 + sk
\* an address no key of PrivateKeys has
StrangerAddress == 100
\* what ethers.randomBytes(32) returns: any 32-byte value; the signer keeps no
\* record of the values it drew
Nonces == 1..MaxNonces
\* Payment402Request: the recipient, the token and the chain (wormhole id)
SignRequests == [recipient : {200, 201}, token : {"USDC", "0xToken"}, chain : {30}]

\* SessionKeyManager.encryptPrivateKey: the base64 text of the AES blob
EncryptPrivateKey(sk) == [format |-> "base64", key |-> sk]
\* a 0x-prefixed 32-byte hex private key
RawPrivateKey(sk) == [format |-> "hex32", key |-> sk]

\* SessionKeyManager.createSession, the key material of the session it
\* returns: a fresh key pair, the private key encrypted
CreateSessionKeys(sk) ==
  /\ signerSession' = [publicKey |-> Address(sk),
                       encryptedPrivateKey |-> EncryptPrivateKey(sk),
                       madeBy |-> "createSession"]
  /\ signerOut' = [op |-> "none"]
  /\ ret' = [op |-> "createSession"]
  /\ UNCHANGED <<now, store, obj, currentSession, issued, tokenCache, flows>>
  /\ UNCHANGED <<hf, auditStore, auditMem, auditAcked, auditN, avars, qvars, pvars>>

\* a session object built by hand with the raw private key in its
\* encryptedPrivateKey field, as the signer's tests build it
HandBuiltSessionKeys(sk) ==
  /\ signerSession' = [publicKey |-> Address(sk),
                       encryptedPrivateKey |-> RawPrivateKey(sk),
                       madeBy |-> "caller"]
  /\ signerOut' = [op |-> "none"]
  /\ ret' = [op |-> "session built"]
  /\ UNCHANGED <<now, store, obj, currentSession, issued, tokenCache, flows>>
  /\ UNCHANGED <<hf, auditStore, auditMem, auditAcked, auditN, avars, qvars, pvars>>

\* new ethers.Wallet(key): a SigningKey needs 32 bytes of hex; the base64
\* text of an encrypted blob is not that, and the constructor throws
Wallet(encryptedPrivateKey) ==
  IF encryptedPrivateKey.format = "hex32"
  THEN [ok |-> TRUE, key |-> encryptedPrivateKey.key,
        address |-> Address(encryptedPrivateKey.key)]
  ELSE [ok |-> FALSE, key |-> 0, address |-> 0]

\* resolveTokenAddress: an address is kept, a symbol is looked up
ResolveTokenAddress(token) == IF token = "0xToken" THEN "0xToken" ELSE "0xUSDC"
\* wormholeToEvmChainId: 30 is Base, 8453
WormholeToEvmChainId(chain) == IF chain = 30 THEN 8453 ELSE chain

\* PaymentSigner.sign(request, session)
Sign(request, nonce) ==
  /\ signerSession.madeBy # "nobody"
  /\ LET wallet == Wallet(signerSession.encryptedPrivateKey)
         tokenAddress == ResolveTokenAddress(request.token)
         authorization == [from |-> wallet.address, to |-> request.recipient,
                           nonce |-> nonce]
         domain == [chainId |-> WormholeToEvmChainId(request.chain),
                    verifyingContract |-> tokenAddress]
     IN  signerOut' =
           IF ~wallet.ok
           THEN [op |-> "sign", error |-> "invalid private key"]
           ELSE [op |-> "sign", error |-> "none",
                 signature |-> [key |-> wallet.key, domain |-> domain,
                                value |-> authorization],
                 authorization |-> authorization, nonce |-> nonce,
                 chainId |-> domain.chainId, tokenAddress |-> tokenAddress,
                 expectedSigner |-> 0, withTokenAddress |-> FALSE,
                 verified |-> FALSE]
  /\ ret' = [op |-> "sign"]
  /\ UNCHANGED <<now, store, obj, currentSession, issued, tokenCache, flows>>
  /\ UNCHANGED <<hf, auditStore, auditMem, auditAcked, auditN, avars, qvars, pvars>>
  /\ UNCHANGED signerSession

\* ethers.verifyTypedData: the signing key's address when the domain and the
\* value are the signed ones, some unrelated address otherwise
VerifyTypedData(domain, authorization, signature) ==
  IF signature.domain = domain /\ signature.value = authorization
  THEN Address(signature.key)
  ELSE StrangerAddress

\* PaymentSigner.verifySignature on what sign last returned, with the chain
\* id of that payment and, when withTokenAddress, its token address: the
\* domain has a verifyingContract only when the argument is given
VerifySignature(expectedSigner, withTokenAddress) ==
  /\ signerOut.op \in {"sign", "verifySignature"}
  /\ signerOut.error = "none"
  /\ signerOut' =
       [signerOut EXCEPT !.op = "verifySignature",
          !.expectedSigner = expectedSigner,
          !.withTokenAddress = withTokenAddress,
          !.verified =
             VerifyTypedData([chainId |-> signerOut.chainId,
                              verifyingContract |->
                                IF withTokenAddress THEN signerOut.tokenAddress
                                ELSE "absent"],
                             signerOut.authorization, signerOut.signature)
               = expectedSigner]
  /\ ret' = [op |-> "verifySignature"]
  /\ UNCHANGED <<now, store, obj, currentSession, issued, tokenCache, flows>>
  /\ UNCHANGED <<hf, auditStore, auditMem, auditAcked, auditN, avars, qvars, pvars>>
  /\ UNCHANGED signerSession

\* ------------------------------------------------------- TransactionQueue
\* DEFAULT_CONFIG: batchSize, maxConcurrentBatches, defaultTTLMs,
\* defaultMaxAttempts
BatchSize == 10
MaxConcurrentBatches == 3
DefaultTTLMs == 5 * 60 * 1000
DefaultMaxAttempts == 3
\* config.deadLetterQueueSize as the caller sets it (the default is 100)
DeadLetterQueueSize == 1
\* PRIORITY_ORDER
PriorityOrder == [critical |-> 0, high |-> 1, normal |-> 2, low |-> 3]

\* session key hashes of queued transactions
QueueKeys == {1, 2}
\* priorities, ttlMs and maxAttempts options callers enqueue with (0: not given)
QueuePriorities == {"normal", "high"}
QueueTtls == {0}
QueueMaxAttempts == {2}

\* TransactionQueue.enqueue; a transaction's id is its position in the Map
Enqueue(keyHash, priority, ttlMs, maxAttempts) ==
  /\ Len(queue) < MaxQueue
  /\ IF shuttingDown
     THEN /\ ret' = [op |-> "enqueue", error |-> "Queue is shutting down"]
          /\ UNCHANGED queue
     ELSE /\ queue' = Append(queue,
               [id |-> Len(queue) + 1, keyHash |-> keyHash, priority |-> priority,
                createdAt |-> now,
                expiresAt |-> now + (IF ttlMs # 0 THEN ttlMs ELSE DefaultTTLMs),
                status |-> "pending", attempts |-> 0,
                maxAttempts |-> IF maxAttempts # 0 THEN maxAttempts
                                ELSE DefaultMaxAttempts])
          /\ ret' = [op |-> "enqueue", id |-> Len(queue) + 1]
  /\ UNCHANGED <<now, store, obj, currentSession, issued, tokenCache, flows>>
  /\ UNCHANGED <<hf, auditStore, auditMem, auditAcked, auditN, avars, svars, pvars>>
  /\ UNCHANGED <<activeBatches, batches, deadLetterQueue, shuttingDown>>

\* getPending(): the ids of the pending transactions, in insertion order
RECURSIVE GetPending(_, _)
GetPending(q, i) ==
  IF i > Len(q) THEN <<>>
  ELSE IF q[i].status = "pending" THEN <<i>> \o GetPending(q, i + 1)
  ELSE GetPending(q, i + 1)

\* the comparator of processBatch: priority, then creation time
Compare(a, b) ==
  IF PriorityOrder[a.priority] # PriorityOrder[b.priority]
  THEN PriorityOrder[a.priority] - PriorityOrder[b.priority]
  ELSE a.createdAt - b.createdAt

\* Array.prototype.sort with that comparator (stable) on a sequence of ids
RECURSIVE SortPending(_, _)
SortPending(q, s) ==
  IF s = <<>>
  THEN <<>>
  ELSE LET r == s[Len(s)]
           sorted == SortPending(q, SubSeq(s, 1, Len(s) - 1))
           k == Cardinality({j \in DOMAIN sorted : Compare(q[sorted[j]], q[r]) <= 0})
       IN  SubSeq(sorted, 1, k) \o <<r>> \o SubSeq(sorted, k + 1, Len(sorted))

Range(s) == {s[j] : j \in DOMAIN s}

\* processBatch without the limit on concurrent batches
ProcessBatch_NoLimit ==
  /\ ~shuttingDown
  /\ LET sorted == SortPending(queue, GetPending(queue, 1))
         pending == SubSeq(sorted, 1, Min(BatchSize, Len(sorted)))
         started == {i \in Range(pending) : ~(now >= queue[i].expiresAt)}
     IN  /\ pending # <<>>
         /\ queue' = [i \in DOMAIN queue |->
              IF i \notin Range(pending) THEN queue[i]
              ELSE IF i \notin started THEN [queue[i] EXCEPT !.status = "expired"]
              ELSE [queue[i] EXCEPT !.status = "processing",
                                    !.attempts = queue[i].attempts + 1]]
         /\ batches' = Append(batches, [transactions |-> pending, executing |-> started])
  /\ activeBatches' = activeBatches + 1
  /\ ret' = [op |-> "processBatch"]
  /\ UNCHANGED <<now, store, obj, currentSession, issued, tokenCache, flows>>
  /\ UNCHANGED <<hf, auditStore, auditMem, auditAcked, auditN, avars, svars, pvars>>
  /\ UNCHANGED <<deadLetterQueue, shuttingDown>>

\* TransactionQueue.processBatch up to its await (flush() or the processing
\* timer calls it): the batch is chosen, and Promise.all(pending.map(...))
\* runs every callback up to its own await, so each transaction of the batch
\* is marked expired, or is marked processing and handed to the executor
ProcessBatch ==
  /\ ~shuttingDown
  /\ activeBatches < MaxConcurrentBatches
  /\ LET sorted == SortPending(queue, GetPending(queue, 1))
         pending == SubSeq(sorted, 1, Min(BatchSize, Len(sorted)))
         started == {i \in Range(pending) : ~(now >= queue[i].expiresAt)}
     IN  /\ pending # <<>>
         /\ queue' = [i \in DOMAIN queue |->
              IF i \notin Range(pending) THEN queue[i]
              ELSE IF i \notin started THEN [queue[i] EXCEPT !.status = "expired"]
              ELSE [queue[i] EXCEPT !.status = "processing",
                                    !.attempts = queue[i].attempts + 1]]
         /\ batches' = Append(batches, [transactions |-> pending, executing |-> started])
  /\ activeBatches' = activeBatches + 1
  /\ ret' = [op |-> "processBatch"]
  /\ UNCHANGED <<now, store, obj, currentSession, issued, tokenCache, flows>>
  /\ UNCHANGED <<hf, auditStore, auditMem, auditAcked, auditN, avars, svars, pvars>>
  /\ UNCHANGED <<deadLetterQueue, shuttingDown>>

\* the callback with one attempt more than maxAttempts
ExecuteSettles_OneMore(b, i, outcome) ==
  /\ b \in DOMAIN batches
  /\ i \in batches[b].executing
  /\ batches' = [batches EXCEPT ![b].executing = @ \ {i}]
  /\ IF outcome = "ok"
     THEN /\ queue' = [queue EXCEPT ![i].status = "completed"]
          /\ UNCHANGED deadLetterQueue
     ELSE IF queue[i].attempts <= queue[i].maxAttempts
     THEN /\ queue' = [queue EXCEPT ![i].status = "pending"]
          /\ UNCHANGED deadLetterQueue
     ELSE /\ queue' = [queue EXCEPT ![i].status = "failed"]
          /\ deadLetterQueue' =
               Append(IF Len(deadLetterQueue) >= DeadLetterQueueSize
                      THEN Tail(deadLetterQueue) ELSE deadLetterQueue,
                      [queue[i] EXCEPT !.status = "failed"])
  /\ ret' = [op |-> "executeTransaction", id |-> i, outcome |-> outcome]
  /\ UNCHANGED <<now, store, obj, currentSession, issued, tokenCache, flows>>
  /\ UNCHANGED <<hf, auditStore, auditMem, auditAcked, auditN, avars, svars, pvars>>
  /\ UNCHANGED <<activeBatches, shuttingDown>>

\* executeTransaction settles for transaction i of batch b: completed, or
\* pending again while attempts remain, or failed and copied to the dead
\* letter queue
ExecuteSettles(b, i, outcome) ==
  /\ b \in DOMAIN batches
  /\ i \in batches[b].executing
  /\ batches' = [batches EXCEPT ![b].executing = @ \ {i}]
  /\ IF outcome = "ok"
     THEN /\ queue' = [queue EXCEPT ![i].status = "completed"]
          /\ UNCHANGED deadLetterQueue
     ELSE IF queue[i].attempts < queue[i].maxAttempts
     THEN /\ queue' = [queue EXCEPT ![i].status = "pending"]
          /\ UNCHANGED deadLetterQueue
     ELSE /\ queue' = [queue EXCEPT ![i].status = "failed"]
          /\ deadLetterQueue' =
               Append(IF Len(deadLetterQueue) >= DeadLetterQueueSize
                      THEN Tail(deadLetterQueue) ELSE deadLetterQueue,
                      [queue[i] EXCEPT !.status = "failed"])
  /\ ret' = [op |-> "executeTransaction", id |-> i, outcome |-> outcome]
  /\ UNCHANGED <<now, store, obj, currentSession, issued, tokenCache, flows>>
  /\ UNCHANGED <<hf, auditStore, auditMem, auditAcked, auditN, avars, svars, pvars>>
  /\ UNCHANGED <<activeBatches, shuttingDown>>

\* processBatch after Promise.all: every transaction of batch b has settled
BatchEnd(b) ==
  /\ b \in DOMAIN batches
  /\ batches[b].executing = {}
  /\ batches' = SubSeq(batches, 1, b - 1) \o SubSeq(batches, b + 1, Len(batches))
  /\ activeBatches' = activeBatches - 1
  /\ ret' = [op |-> "batch:completed"]
  /\ UNCHANGED <<now, store, obj, currentSession, issued, tokenCache, flows>>
  /\ UNCHANGED <<hf, auditStore, auditMem, auditAcked, auditN, avars, svars, pvars>>
  /\ UNCHANGED <<queue, deadLetterQueue, shuttingDown>>

\* TransactionQueue.checkExpiration, on the one-second interval timer
\* (shutdown clears the timer)
CheckExpiration ==
  /\ ~shuttingDown
  /\ queue' = [i \in DOMAIN queue |->
       IF queue[i].status = "pending" /\ now >= queue[i].expiresAt
       THEN [queue[i] EXCEPT !.status = "expired"] ELSE queue[i]]
  /\ ret' = [op |-> "checkExpiration"]
  /\ UNCHANGED <<now, store, obj, currentSession, issued, tokenCache, flows>>
  /\ UNCHANGED <<hf, auditStore, auditMem, auditAcked, auditN, avars, svars, pvars>>
  /\ UNCHANGED <<activeBatches, batches, deadLetterQueue, shuttingDown>>

\* cancel without the test of the status
Cancel_AnyStatus(i) ==
  /\ i \in DOMAIN queue
  /\ queue' = [queue EXCEPT ![i].status = "cancelled"]
  /\ ret' = [op |-> "cancel", id |-> i, result |-> TRUE]
  /\ UNCHANGED <<now, store, obj, currentSession, issued, tokenCache, flows>>
  /\ UNCHANGED <<hf, auditStore, auditMem, auditAcked, auditN, avars, svars, pvars>>
  /\ UNCHANGED <<activeBatches, batches, deadLetterQueue, shuttingDown>>

\* TransactionQueue.cancel
Cancel(i) ==
  /\ i \in DOMAIN queue
  /\ IF queue[i].status = "pending"
     THEN /\ queue' = [queue EXCEPT ![i].status = "cancelled"]
          /\ ret' = [op |-> "cancel", id |-> i, result |-> TRUE]
     ELSE /\ UNCHANGED queue
          /\ ret' = [op |-> "cancel", id |-> i, result |-> FALSE]
  /\ UNCHANGED <<now, store, obj, currentSession, issued, tokenCache, flows>>
  /\ UNCHANGED <<hf, auditStore, auditMem, auditAcked, auditN, avars, svars, pvars>>
  /\ UNCHANGED <<activeBatches, batches, deadLetterQueue, shuttingDown>>

\* the index of transaction id in the dead letter queue (findIndex), 0 if none
DeadLetterIndex(id) ==
  IF \E j \in DOMAIN deadLetterQueue : deadLetterQueue[j].id = id
  THEN CHOOSE j \in DOMAIN deadLetterQueue :
         /\ deadLetterQueue[j].id = id
         /\ \A l \in DOMAIN deadLetterQueue : deadLetterQueue[l].id = id => j <= l
  ELSE 0

\* TransactionQueue.retryFromDeadLetter: the dead-lettered copy replaces the
\* queue's entry, pending again with attempts 0 and a new expiry
RetryFromDeadLetter(id) ==
  /\ id \in DOMAIN queue
  /\ LET index == DeadLetterIndex(id)
     IN  IF index = 0
         THEN /\ ret' = [op |-> "retryFromDeadLetter", id |-> id, result |-> FALSE]
              /\ UNCHANGED <<queue, deadLetterQueue>>
         ELSE /\ deadLetterQueue' = SubSeq(deadLetterQueue, 1, index - 1)
                                     \o SubSeq(deadLetterQueue, index + 1,
                                               Len(deadLetterQueue))
              /\ queue' = [queue EXCEPT ![id] =
                   [deadLetterQueue[index] EXCEPT !.status = "pending",
                                                  !.attempts = 0,
                                                  !.expiresAt = now + DefaultTTLMs]]
              /\ ret' = [op |-> "retryFromDeadLetter", id |-> id, result |-> TRUE]
  /\ UNCHANGED <<now, store, obj, currentSession, issued, tokenCache, flows>>
  /\ UNCHANGED <<hf, auditStore, auditMem, auditAcked, auditN, avars, svars, pvars>>
  /\ UNCHANGED <<activeBatches, batches, shuttingDown>>

\* TransactionQueue.shutdown: the flag is set and both timers are cleared;
\* the wait loop that follows only polls getPending() and activeBatches
Shutdown ==
  /\ shuttingDown' = TRUE
  /\ ret' = [op |-> "shutdown"]
  /\ UNCHANGED <<now, store, obj, currentSession, issued, tokenCache, flows>>
  /\ UNCHANGED <<hf, auditStore, auditMem, auditAcked, auditN, avars, svars, pvars>>
  /\ UNCHANGED <<queue, activeBatches, batches, deadLetterQueue>>

\* ----------------------------------------------------------- NonceManager
\* callers that run transactions of a key, and the keys
NonceCallers == 1..MaxCallers
NonceKeys == {1, 2}
\* nonceCache.get(keyHash) of a key never cached
NoCachedNonce == -1
NoNonce == [keyHash |-> 0]

\* getNextNonce that does not look at the pending nonces
GetNextNonce_IgnorePending(keyHash) ==
  IF nonceCache[keyHash] # NoCachedNonce THEN nonceCache[keyHash] ELSE 0

\* NonceManager.getNextNonce(keyHash) with no on-chain value: the cached
\* value or 0, incremented while it is among the pending nonces
GetNextNonce(keyHash) ==
  LET cached == nonceCache[keyHash]
      first == IF cached # NoCachedNonce THEN cached ELSE 0
      pending == pendingNonces[keyHash]
  IN  CHOOSE n \in first..(first + Cardinality(pending)) :
        /\ n \notin pending
        /\ \A m \in first..(n - 1) : m \in pending

\* The documented use, in one synchronous run of caller c:
\* n = getNextNonce(keyHash); reserveNonce(keyHash, n)
ReserveNextNonce(c, keyHash) ==
  /\ inFlight[c] = NoNonce
  /\ GetNextNonce(keyHash) <= MaxNonceValue
  /\ pendingNonces' = [pendingNonces EXCEPT ![keyHash] = @ \cup {GetNextNonce(keyHash)}]
  /\ inFlight' = [inFlight EXCEPT ![c] =
                    [keyHash |-> keyHash, nonce |-> GetNextNonce(keyHash)]]
  /\ ret' = [op |-> "reserveNonce", keyHash |-> keyHash,
             nonce |-> GetNextNonce(keyHash)]
  /\ UNCHANGED <<nonceCache, usedNonces>>
  /\ UNCHANGED <<now, store, obj, currentSession, issued, tokenCache, flows>>
  /\ UNCHANGED <<hf, auditStore, auditMem, auditAcked, auditN, avars, qvars, svars>>
  /\ UNCHANGED tvars

\* NonceManager.confirmNonce: the transaction of caller c succeeded
ConfirmNonce(c) ==
  /\ inFlight[c] # NoNonce
  /\ LET keyHash == inFlight[c].keyHash
         nonce == inFlight[c].nonce
         current == IF nonceCache[keyHash] # NoCachedNonce
                    THEN nonceCache[keyHash] ELSE 0
     IN  /\ pendingNonces' = [pendingNonces EXCEPT ![keyHash] = @ \ {nonce}]
         /\ nonceCache' = IF nonce >= current
                          THEN [nonceCache EXCEPT ![keyHash] = nonce + 1]
                          ELSE nonceCache
         /\ usedNonces' = [usedNonces EXCEPT ![keyHash] = @ \cup {nonce}]
         /\ ret' = [op |-> "confirmNonce", keyHash |-> keyHash, nonce |-> nonce]
  /\ inFlight' = [inFlight EXCEPT ![c] = NoNonce]
  /\ UNCHANGED <<now, store, obj, currentSession, issued, tokenCache, flows>>
  /\ UNCHANGED <<hf, auditStore, auditMem, auditAcked, auditN, avars, qvars, svars>>
  /\ UNCHANGED tvars

\* NonceManager.releaseNonce: the transaction of caller c failed or was cancelled
ReleaseNonce(c) ==
  /\ inFlight[c] # NoNonce
  /\ pendingNonces' = [pendingNonces EXCEPT ![inFlight[c].keyHash] =
                         @ \ {inFlight[c].nonce}]
  /\ ret' = [op |-> "releaseNonce", keyHash |-> inFlight[c].keyHash,
             nonce |-> inFlight[c].nonce]
  /\ inFlight' = [inFlight EXCEPT ![c] = NoNonce]
  /\ UNCHANGED <<nonceCache, usedNonces>>
  /\ UNCHANGED <<now, store, obj, currentSession, issued, tokenCache, flows>>
  /\ UNCHANGED <<hf, auditStore, auditMem, auditAcked, auditN, avars, qvars, svars>>
  /\ UNCHANGED tvars

\* ------------------------------------------------------ TransactionPoller
\* TIMEOUT_MS
POLLER_TIMEOUT_MS == 300000
\* transaction hashes, and the poll() calls that can be in progress at once
PollerHashes == {1, 2}
PollIds == 1..MaxPolls
IdlePoll == [pc |-> "idle"]
\* the subscribers: the callback passed to the n-th track() call, and 0, the
\* callback passed to onConfirmation
PollerSubscribers == 0..MaxTracks

\* pending.get(txHash): the position of the hash in the Map, 0 if absent
PollerIndex(pending, txHash) ==
  IF \E j \in DOMAIN pending : pending[j].txHash = txHash
  THEN CHOOSE j \in DOMAIN pending : pending[j].txHash = txHash
  ELSE 0

\* TransactionPoller.updateStatus on the poller state P (the Map pending, the
\* callbacks per hash, the number of global callbacks, the events delivered)
UpdateStatus(P, txHash, status) ==
  LET j == PollerIndex(P.pending, txHash)
  IN  IF j = 0 THEN P
      ELSE [P EXCEPT
             !.pending[j].status = status,
             !.notified[txHash] =
                @ \o [n \in 1..Len(P.callbacks[txHash]) |->
                        [to |-> P.callbacks[txHash][n], status |-> status]]
                  \o [n \in 1..P.globalCallbacks |->
                        [to |-> 0, status |-> status]],
             !.callbacks[txHash] = IF status # "pending" THEN <<>> ELSE @]

\* the loop of poll() over its snapshot, up to its next await: a transaction
\* past the timeout is set to timeout, the first other one is checked
RECURSIVE PollLoop(_, _, _)
PollLoop(P, todo, t) ==
  IF todo = <<>>
  THEN [P |-> P, todo |-> <<>>]
  ELSE IF t - Head(todo).submittedAt > POLLER_TIMEOUT_MS
  THEN PollLoop(UpdateStatus(P, Head(todo).txHash, "timeout"), Tail(todo), t)
  ELSE [P |-> P, todo |-> todo]

\* getPending(): the entries of the Map with status pending
RECURSIVE PollerGetPending(_)
PollerGetPending(pending) ==
  IF pending = <<>> THEN <<>>
  ELSE (IF Head(pending).status = "pending" THEN <<Head(pending)>> ELSE <<>>)
       \o PollerGetPending(Tail(pending))

PollerState ==
  [pending |-> pollerPending, callbacks |-> pollerCallbacks,
   globalCallbacks |-> globalCallbacks, notified |-> notified]

\* poll() of p goes on to its next await, or ends with maybeStopPolling
PollContinues(p, P, todo) ==
  LET r == PollLoop(P, todo, now)
  IN  /\ pollerPending' = r.P.pending
      /\ pollerCallbacks' = r.P.callbacks
      /\ notified' = r.P.notified
      /\ IF r.todo = <<>>
         THEN /\ polls' = [polls EXCEPT ![p] = IdlePoll]
              /\ pollInterval' = IF PollerGetPending(r.P.pending) = <<>>
                                 THEN FALSE ELSE pollInterval
         ELSE /\ polls' = [polls EXCEPT ![p] = [pc |-> "checking", todo |-> r.todo]]
              /\ UNCHANGED pollInterval

\* TransactionPoller.track
Track(txHash, withCallback) ==
  /\ tracks < MaxTracks
  /\ tracks' = tracks + 1
  /\ LET j == PollerIndex(pollerPending, txHash)
         tx == [txHash |-> txHash, submittedAt |-> now, status |-> "pending"]
     IN  pollerPending' = IF j = 0 THEN Append(pollerPending, tx)
                          ELSE [pollerPending EXCEPT ![j] = tx]
  /\ pollerCallbacks' = IF withCallback
                        THEN [pollerCallbacks EXCEPT ![txHash] = Append(@, tracks + 1)]
                        ELSE pollerCallbacks
  /\ pollInterval' = TRUE
  /\ notified' = [notified EXCEPT ![txHash] = <<>>]
  /\ ret' = [op |-> "track", txHash |-> txHash]
  /\ UNCHANGED <<globalCallbacks, polls>>
  /\ UNCHANGED <<now, store, obj, currentSession, issued, tokenCache, flows>>
  /\ UNCHANGED <<hf, auditStore, auditMem, auditAcked, auditN, avars, qvars, svars>>
  /\ UNCHANGED mvars

\* TransactionPoller.onConfirmation
OnConfirmation ==
  /\ globalCallbacks < MaxGlobalCallbacks
  /\ globalCallbacks' = globalCallbacks + 1
  /\ ret' = [op |-> "onConfirmation"]
  /\ UNCHANGED <<pollerPending, pollerCallbacks, pollInterval, polls, notified, tracks>>
  /\ UNCHANGED <<now, store, obj, currentSession, issued, tokenCache, flows>>
  /\ UNCHANGED <<hf, auditStore, auditMem, auditAcked, auditN, avars, qvars, svars>>
  /\ UNCHANGED mvars

\* The interval timer fires: poll() runs from getPending() to its first await
PollStart(p) ==
  /\ pollInterval
  /\ polls[p] = IdlePoll
  /\ PollContinues(p, PollerState, PollerGetPending(pollerPending))
  /\ ret' = [op |-> "poll"]
  /\ UNCHANGED <<globalCallbacks, tracks>>
  /\ UNCHANGED <<now, store, obj, currentSession, issued, tokenCache, flows>>
  /\ UNCHANGED <<hf, auditStore, auditMem, auditAcked, auditN, avars, qvars, svars>>
  /\ UNCHANGED mvars

\* checkConfirmation settles for the transaction poll p is waiting on, and
\* the loop goes on
CheckConfirmationSettles(p, result) ==
  /\ polls[p].pc = "checking"
  /\ PollContinues(p,
       IF result = "confirmed"
       THEN UpdateStatus(PollerState, Head(polls[p].todo).txHash, "confirmed")
       ELSE PollerState,
       Tail(polls[p].todo))
  /\ ret' = [op |-> "checkConfirmation", result |-> result]
  /\ UNCHANGED <<globalCallbacks, tracks>>
  /\ UNCHANGED <<now, store, obj, currentSession, issued, tokenCache, flows>>
  /\ UNCHANGED <<hf, auditStore, auditMem, auditAcked, auditN, avars, qvars, svars>>
  /\ UNCHANGED mvars

\* ------------------------------------------------------------ AuditLogger
\* getLogs: options.limit || 50
PAGE_LIMIT == 50

\* persistLogs either stores the log or throws: JSON.stringify throws on the
\* bigint amount of a record unless the host serializes bigints, and
\* localStorage.setItem throws when the quota is exceeded
PersistOutcomes == {"ok", "throws"}

\* the PaymentRecord log() builds from a receipt: the entry, an id, the key hash
PaymentRecord(id, protocol, sessionKeyHash, t) ==
  [id |-> id, status |-> "confirmed", protocol |-> protocol,
   sessionKeyHash |-> sessionKeyHash, timestamp |-> t]

\* AuditLogger.log on instance i: push the record, then persistLogs writes
\* this instance's inMemoryLogs over the localStorage entry
AuditLog(i, protocol, sessionKeyHash, persist) ==
  /\ auditN < MaxAudit
  /\ LET record == PaymentRecord(auditN + 1, protocol, sessionKeyHash, now)
         logs == Append(auditMem[i], record)
     IN  /\ auditMem' = [auditMem EXCEPT ![i] = logs]
         /\ auditN' = auditN + 1
         /\ IF persist = "ok"
            THEN /\ auditStore' = logs
                 /\ auditAcked' = auditAcked \cup {auditN + 1}
            ELSE UNCHANGED <<auditStore, auditAcked>>

\* a caller logs a receipt on an AuditLogger instance i of its own (the
\* wallet's instance, 1, is private to the wallet)
AuditLoggerLog(i, protocol, persist) ==
  /\ i # 1
  /\ AuditLog(i, protocol, 0, persist)
  /\ ret' = [op |-> "log", logger |-> i,
             error |-> IF persist = "ok" THEN "none" ELSE "TypeError"]
  /\ UNCHANGED <<now, store, obj, currentSession, issued, tokenCache, flows, hf>>
  /\ UNCHANGED nvars

\* logs.sort((a, b) => b.timestamp - a.timestamp): stable, newest first
RECURSIVE SortByTimestampDesc(_)
SortByTimestampDesc(s) ==
  IF s = <<>>
  THEN <<>>
  ELSE LET r == s[Len(s)]
           sorted == SortByTimestampDesc(SubSeq(s, 1, Len(s) - 1))
           k == Cardinality({j \in DOMAIN sorted :
                               sorted[j].timestamp >= r.timestamp})
       IN  SubSeq(sorted, 1, k) \o <<r>> \o SubSeq(sorted, k + 1, Len(sorted))

\* AuditLogger.loadLogs: the stored log replaces inMemoryLogs when there is one
LoadLogs(i) == IF auditStore # <<>> THEN auditStore ELSE auditMem[i]

\* AuditLogger.getLogs({}) on instance i
AuditGetLogs(i) ==
  /\ auditMem' = [auditMem EXCEPT ![i] = LoadLogs(i)]
  /\ ret' = [op |-> "getLogs", logger |-> i,
             result |-> SubSeq(SortByTimestampDesc(LoadLogs(i)), 1,
                               Min(PAGE_LIMIT, Len(LoadLogs(i))))]
  /\ UNCHANGED <<now, store, obj, currentSession, issued, tokenCache, flows, hf>>
  /\ UNCHANGED <<auditStore, auditAcked, auditN, nvars>>

\* The process restarts: localStorage is kept, every object is built anew
\* (sessions can be read back from the store).
Restart ==
  /\ auditMem' = [i \in Loggers |-> <<>>]
  /\ triggeredAlerts' = {}
  /\ alertCalls' = <<>>
  /\ pendingApprovals' = [tx \in TxIds |-> NoApproval]
  /\ queue' = <<>>
  /\ activeBatches' = 0
  /\ batches' = <<>>
  /\ deadLetterQueue' = <<>>
  /\ shuttingDown' = FALSE
  /\ UNCHANGED svars
  /\ nonceCache' = [k \in NonceKeys |-> NoCachedNonce]
  /\ pendingNonces' = [k \in NonceKeys |-> {}]
  /\ inFlight' = [c \in NonceCallers |-> NoNonce]
  /\ usedNonces' = [k \in NonceKeys |-> {}]
  /\ pollerPending' = <<>>
  /\ pollerCallbacks' = [h \in PollerHashes |-> <<>>]
  /\ globalCallbacks' = 0
  /\ pollInterval' = FALSE
  /\ polls' = [p \in PollIds |-> IdlePoll]
  /\ notified' = [h \in PollerHashes |-> <<>>]
  /\ tracks' = 0
  /\ obj' = store
  /\ currentSession' = 0
  /\ flows' = [f \in FlowIds |-> IdleFlow]
  /\ hf' = IdleHf
  /\ ret' = [op |-> "restart"]
  /\ UNCHANGED <<now, store, issued, tokenCache, auditStore, auditAcked, auditN>>

\* AgentWallet.pay: the transfer is confirmed and recordSpending runs on
\* this.currentSession
PayRecord(f) ==
  /\ flows[f].pc = "checked"
  /\ flows[f].kind = "pay"
  /\ IF currentSession = 0
     THEN /\ ret' = [op |-> "pay", error |-> "TypeError"]
          /\ flows' = [flows EXCEPT ![f] = IdleFlow]
          /\ UNCHANGED <<store, obj>>
     ELSE /\ obj[currentSession].metadata.transactionCount < MaxTx
          /\ RecordSpending(currentSession, flows[f].amountUSD)
          /\ ret' = [op |-> "recordSpending", keyHash |-> currentSession,
                     amountUSD |-> flows[f].amountUSD]
          /\ flows' = [flows EXCEPT ![f].pc = "recorded"]
  /\ UNCHANGED <<now, currentSession, issued, tokenCache>>
  /\ UNCHANGED xvars

\* AgentWallet.pay after recordSpending: the wallet's AlertManager checks the
\* session's daily spending, the receipt is built, written to the wallet's
\* audit log and returned
PayAudit(f, persist) ==
  /\ flows[f].pc = "recorded"
  /\ IF currentSession = 0
     THEN /\ ret' = [op |-> "pay", error |-> "TypeError"]
          /\ UNCHANGED <<auditStore, auditMem, auditAcked, auditN>>
          /\ UNCHANGED <<triggeredAlerts, alertCalls>>
     ELSE /\ triggeredAlerts' =
               AfterCheckSpending(triggeredAlerts, currentSession,
                                  obj[currentSession].metadata.dailySpentUSD,
                                  obj[currentSession].config.dailyLimitUSD)
          /\ alertCalls' =
               Append(alertCalls,
                      AlertCall(triggeredAlerts, currentSession,
                                obj[currentSession].metadata.dailySpentUSD,
                                obj[currentSession].config.dailyLimitUSD))
          /\ AuditLog(1, "direct", currentSession, persist)
          /\ ret' = [op |-> "pay",
                     error |-> IF persist = "ok" THEN "none" ELSE "TypeError"]
  /\ flows' = [flows EXCEPT ![f] = IdleFlow]
  /\ UNCHANGED <<now, store, obj, currentSession, issued, tokenCache, hf>>
  /\ UNCHANGED <<pendingApprovals, qvars, svars, pvars>>

\* ------------------------------------------------------------------ time
\* Date.now() advances
Tick ==
  /\ \E t \in TimePoints : t > now /\ now' = t
  /\ ret' = NoRet
  /\ UNCHANGED <<store, obj, currentSession, issued, tokenCache, flows>>
  /\ UNCHANGED xvars

\* the state after construction, with room for the sessions of the key hashes keys
InitKeys(keys) ==
  /\ now = 0
  /\ store = [k \in keys |-> NoSession]
  /\ obj = [k \in keys |-> NoSession]
  /\ currentSession = 0
  /\ issued = <<>>
  /\ tokenCache = {}
  /\ flows = [f \in FlowIds |-> IdleFlow]
  /\ ret = NoRet
  /\ hf = IdleHf
  /\ auditStore = <<>>
  /\ auditMem = [i \in Loggers |-> <<>>]
  /\ auditAcked = {}
  /\ auditN = 0
  /\ triggeredAlerts = {}
  /\ alertCalls = <<>>
  /\ pendingApprovals = [tx \in TxIds |-> NoApproval]
  /\ queue = <<>>
  /\ activeBatches = 0
  /\ batches = <<>>
  /\ deadLetterQueue = <<>>
  /\ shuttingDown = FALSE
  /\ signerSession = [madeBy |-> "nobody"]
  /\ signerOut = [op |-> "none"]
  /\ nonceCache = [k \in NonceKeys |-> NoCachedNonce]
  /\ pendingNonces = [k \in NonceKeys |-> {}]
  /\ inFlight = [c \in NonceCallers |-> NoNonce]
  /\ usedNonces = [k \in NonceKeys |-> {}]
  /\ pollerPending = <<>>
  /\ pollerCallbacks = [h \in PollerHashes |-> <<>>]
  /\ globalCallbacks = 0
  /\ pollInterval = FALSE
  /\ polls = [p \in PollIds |-> IdlePoll]
  /\ notified = [h \in PollerHashes |-> <<>>]
  /\ tracks = 0

Init == InitKeys(KeyHashes)

\* One caller at a time: sessions made by createSession, each payment flow
\* runs from its limit check to its recording before the next call starts.
Next ==
  \/ AllIdle /\ \E k \in KeyHashes : \E c \in Configs(now) : CreateSession(k, c)
  \/ AllIdle /\ \E k \in KeyHashes : RevokeSession(k)
  \/ AllIdle /\ \E kind \in {"x402", "ucp"} : \E k \in KeyHashes :
       \E a \in Amounts : FlowCheck(1, kind, k, a)
  \/ FlowAbort(1)
  \/ FlowRecord(1)
  \/ Tick

Spec == Init /\ [][Next]_vars

\* The wallet with payment flows interleaved at their await points.
NextConcurrent ==
  \/ \E k \in KeyHashes : \E c \in Configs(now) : WalletInit(k, c)
  \/ WalletRevokeSession
  \/ \E f \in FlowIds : \E kind \in FlowKinds : \E k \in KeyHashes :
       \E a \in Amounts : FlowCheck(f, kind, k, a)
  \/ \E f \in FlowIds : FlowAbort(f)
  \/ \E f \in FlowIds : FlowRecord(f)
  \/ Tick

SpecConcurrent == Init /\ [][NextConcurrent]_vars

\* Sessions created and imported, then used.
NextImport ==
  \/ \E k \in KeyHashes : \E c \in Configs(now) : CreateSession(k, c)
  \/ \E k \in KeyHashes : \E c \in Configs(now) : ImportSession(k, c)
  \/ \E k \in KeyHashes : \E c \in Configs(now) : \E wf \in BOOLEAN :
       WalletImportSession(k, c, wf)
  \/ \E k \in KeyHashes : RevokeSession(k)
  \/ AllIdle /\ \E kind \in {"x402", "ucp"} : \E k \in KeyHashes :
       \E a \in Amounts : FlowCheck(1, kind, k, a)
  \/ FlowRecord(1)
  \/ Tick

SpecImport == Init /\ [][NextImport]_vars

\* Sessions and the payment tokens minted from them.
NextTokens ==
  \/ \E k \in KeyHashes : \E c \in Configs(now) : WalletInit(k, c)
  \/ \E k \in KeyHashes : \E c \in Configs(now) : CreateSession(k, c)
  \/ \E k \in KeyHashes : RevokeSession(k)
  \/ WalletRevokeSession
  \/ \E k \in KeyHashes : \E ttl \in Ttls : Tokenize(k, ttl)
  \/ \E i \in TokenIds : Validate(i)
  \/ \E k \in KeyHashes : RevokeAllForSession(k)
  \/ \E i \in TokenIds : \E k \in KeyHashes : Refresh(i, k)
  \/ Tick

SpecTokens == Init /\ [][NextTokens]_vars

\* One AgentWallet.fetch call at a time, against a server that answers with
\* any status and any headers.
NextX402 ==
  \/ \E k \in KeyHashes : \E c \in Configs(now) : WalletInit(k, c)
  \/ WalletFetch
  \/ WithRetryAgain
  \/ CallerAbort
  \/ \E resp \in InitialResponses : HandleFetchInitial(resp)
  \/ \E signed \in BOOLEAN : X402Sign(signed)
  \/ X402Record
  \/ X402SendRetry
  \/ \E resp \in RetryResponses : HandleFetchRetryResponse(resp)
  \/ \E o \in {"create failed", "complete failed", "ok"} : UcpCheckout(o)
  \/ \E resp \in RetryResponses : UcpRetryResponse(resp)
  \/ Tick

SpecX402 == Init /\ [][NextX402]_vars

\* The wallet's direct payments and the audit log, with a second AuditLogger
\* on the same storage and process restarts.
NextAudit ==
  \/ \E k \in KeyHashes : \E c \in Configs(now) : WalletInit(k, c)
  \/ AllIdle /\ \E k \in KeyHashes : \E a \in Amounts : FlowCheck(1, "pay", k, a)
  \/ FlowAbort(1)
  \/ PayRecord(1)
  \/ \E p \in PersistOutcomes : PayAudit(1, p)
  \/ \E i \in Loggers : \E p \in PersistOutcomes : AuditLoggerLog(i, "x402", p)
  \/ \E i \in Loggers : AuditGetLogs(i)
  \/ Restart
  \/ Tick

SpecAudit == Init /\ [][NextAudit]_vars

\* A caller of AlertManager.checkSpending for two sessions; requestApproval
\* notifies through the same callbacks.
NextAlerts ==
  \/ \E k \in AlertKeys : \E a \in AlertInputs : CheckSpending(k, a.spent, a.limit)
  \/ RequestApproval(1)

SpecAlerts == Init /\ [][NextAlerts]_vars

\* High-value approvals requested, approved and looked up around the end of
\* their window.
NextApprovals ==
  \/ \E tx \in TxIds : RequestApproval(tx)
  \/ \E tx \in TxIds : ApproveTransaction(tx, "approver")
  \/ \E tx \in TxIds : CheckApproval(tx)
  \/ CleanupExpiredApprovals
  \/ TickApproval

SpecApprovals == Init /\ [][NextApprovals]_vars

\* PaymentSigner.sign and verifySignature on sessions from createSession and
\* on sessions built by hand.
NextSigner ==
  \/ \E sk \in PrivateKeys : CreateSessionKeys(sk)
  \/ \E sk \in PrivateKeys : HandBuiltSessionKeys(sk)
  \/ \E r \in SignRequests : \E n \in Nonces : Sign(r, n)
  \/ \E a \in {Address(sk) : sk \in PrivateKeys} \cup {StrangerAddress} :
       \E wt \in BOOLEAN : VerifySignature(a, wt)

SpecSigner == Init /\ [][NextSigner]_vars

\* The TransactionQueue with its timers and flush().
NextQueue ==
  \/ \E k \in QueueKeys : \E p \in QueuePriorities : \E ttl \in QueueTtls :
       \E m \in QueueMaxAttempts : Enqueue(k, p, ttl, m)
  \/ ProcessBatch
  \/ \E b \in 1..MaxConcurrentBatches : \E i \in 1..MaxQueue :
       \E o \in {"ok", "throws"} : ExecuteSettles(b, i, o)
  \/ \E b \in 1..MaxConcurrentBatches : BatchEnd(b)
  \/ CheckExpiration
  \/ \E i \in 1..MaxQueue : Cancel(i)
  \/ Tick

SpecQueue == Init /\ [][NextQueue]_vars

\* One client of the TransactionQueue that also cancels or retries its first
\* transaction and shuts the queue down.  The processing timer (or flush())
\* calls processBatch while transactions are pending, the expiration timer
\* fires every second, every executor call settles, a settled batch resumes
\* after its await, and time advances.
NextQueueLive ==
  \/ Enqueue(1, "normal", 0, 2)
  \/ ProcessBatch
  \/ \E b \in 1..MaxConcurrentBatches : \E i \in 1..MaxQueue :
       \E o \in {"ok", "throws"} : ExecuteSettles(b, i, o)
  \/ \E b \in 1..MaxConcurrentBatches : BatchEnd(b)
  \/ CheckExpiration
  \/ Cancel(1)
  \/ RetryFromDeadLetter(1)
  \/ Shutdown
  \/ Tick

QueueFairness ==
  /\ WF_vars(ProcessBatch)
  /\ \A b \in 1..MaxConcurrentBatches : \A i \in 1..MaxQueue :
       WF_vars(\E o \in {"ok", "throws"} : ExecuteSettles(b, i, o))
  /\ \A b \in 1..MaxConcurrentBatches : WF_vars(BatchEnd(b))
  /\ WF_vars(CheckExpiration)
  /\ WF_vars(Tick)

SpecQueueLive == Init /\ [][NextQueueLive]_vars /\ QueueFairness

\* The wallet's direct payments and route finding, on any chain.
NextChains ==
  \/ \E k \in KeyHashes : \E c \in Configs(now) : WalletInit(k, c)
  \/ \E ch \in PaymentChains : \E a \in Amounts : PayOnChain(1, ch, a)
  \/ \E o \in {"ok", "throws"} : ExecuteDirectTransfer(1, o)
  \/ \E p \in PersistOutcomes : PayAudit(1, p)
  \/ \E k \in KeyHashes : \E ch \in PaymentChains : \E found \in BOOLEAN :
       FindOptimalRoute(k, ch, found)
  \/ Tick

SpecChains == Init /\ [][NextChains]_vars

InitWallet == InitKeys(WalletKeyHashes)

\* the session configs init() builds from the configuration of a wallet whose
\* limits are MaxLimit and whose sessions last a day (expiryHours 24)
WalletConfigs(t) ==
  {c \in Configs(t) : /\ c.dailyLimitUSD = MaxLimit
                       /\ c.perTransactionLimitUSD = MaxLimit
                       /\ c.expiryTimestamp = t + DAY_MS}

\* One wallet whose caller pays and revokes: the caller makes the first
\* session itself (init) and never creates or imports another.
NextRevoke ==
  \/ \E c \in WalletConfigs(now) : WalletInit(1, c)
  \/ \E k \in WalletKeyHashes : \E c \in WalletConfigs(now) :
       \E ch \in PaymentChains : \E a \in Amounts : PayWithInit(1, k, c, ch, a)
  \/ \E ch \in PaymentChains : \E a \in Amounts : PayOnChain(1, ch, a)
  \/ \E o \in {"ok", "throws"} : ExecuteDirectTransfer(1, o)
  \/ \E p \in PersistOutcomes : PayAudit(1, p)
  \/ WalletRevokeSession

SpecRevoke == InitWallet /\ [][NextRevoke]_vars

\* Several callers of one NonceManager, each using it as documented.
NextNonces ==
  \/ \E c \in NonceCallers : \E k \in NonceKeys : ReserveNextNonce(c, k)
  \/ \E c \in NonceCallers : ConfirmNonce(c)
  \/ \E c \in NonceCallers : ReleaseNonce(c)

SpecNonces == Init /\ [][NextNonces]_vars

\* One TransactionPoller: its interval timer fires whether or not the
\* previous poll() has returned.
NextPoller ==
  \/ \E h \in PollerHashes : \E cb \in BOOLEAN : Track(h, cb)
  \/ OnConfirmation
  \/ \E p \in PollIds : PollStart(p)
  \/ \E p \in PollIds :
       \E r \in {"confirmed", "unconfirmed", "throws"} : CheckConfirmationSettles(p, r)
  \/ Tick

SpecPoller == Init /\ [][NextPoller]_vars

\* ================================================================ claims
Held == {k \in KeyHashes : obj[k] # NoSession}

\* C1: when every recordSpending(a) directly follows a checkLimits(a) that
\* allowed a, dailySpentUSD never exceeds dailyLimitUSD and every recorded
\* amount is at most perTransactionLimitUSD.
C1_LimitsNeverExceeded ==
  /\ \A k \in Held :
       obj[k].metadata.dailySpentUSD <= obj[k].config.dailyLimitUSD
  /\ ret.op = "recordSpending" =>
       ret.amountUSD <= obj[ret.keyHash].config.perTransactionLimitUSD

\* a second recording has just filled the daily limit exactly
C1_Witness ==
  /\ ret.op = "recordSpending"
  /\ ret.amountUSD > 0
  /\ obj[ret.keyHash].metadata.transactionCount = 2
  /\ obj[ret.keyHash].metadata.dailySpentUSD = obj[ret.keyHash].config.dailyLimitUSD

\* C3: from now = expiryTimestamp on the session is invalid and checkLimits
\* denies every amount with the reason 'Session has expired', whatever the
\* ledger holds.
C3_ExpiredSessionDenied ==
  /\ \A k \in Held :
       now >= obj[k].config.expiryTimestamp =>
         /\ ~IsSessionValid(obj[k], now)
         /\ \A a \in Amounts :
              /\ ~CheckLimits(obj[k], a, now).allowed
              /\ CheckLimits(obj[k], a, now).reason = "Session has expired"
  /\ (ret.op = "checkLimits" /\ now >= obj[ret.keyHash].config.expiryTimestamp) =>
       /\ ~ret.result.allowed
       /\ ret.result.reason = "Session has expired"

\* checkLimits was called at now = expiryTimestamp exactly, for an amount
\* within both limits, on a session that has spent something
C3_Witness ==
  /\ ret.op = "checkLimits"
  /\ now = obj[ret.keyHash].config.expiryTimestamp
  /\ obj[ret.keyHash].metadata.dailySpentUSD > 0
  /\ ret.amountUSD > 0
  /\ ret.amountUSD <= obj[ret.keyHash].config.perTransactionLimitUSD
  /\ obj[ret.keyHash].metadata.dailySpentUSD + ret.amountUSD
       <= obj[ret.keyHash].config.dailyLimitUSD
  /\ ~ret.result.allowed

\* what C7 says checkLimits returns on an unexpired session
C7_Expected(session, a) ==
  IF a > session.config.perTransactionLimitUSD
  THEN [allowed |-> FALSE, reason |-> "exceeds per-transaction limit",
        remainingDailyLimitUSD |->
          session.config.dailyLimitUSD - session.metadata.dailySpentUSD]
  ELSE IF session.metadata.dailySpentUSD + a > session.config.dailyLimitUSD
  THEN [allowed |-> FALSE, reason |-> "exceeds remaining daily limit",
        remainingDailyLimitUSD |->
          session.config.dailyLimitUSD - session.metadata.dailySpentUSD]
  ELSE [allowed |-> TRUE, reason |-> "",
        remainingDailyLimitUSD |->
          session.config.dailyLimitUSD - session.metadata.dailySpentUSD - a]

\* C7: on an unexpired session checkLimits tests the per-transaction limit
\* first, then the daily limit, and reports the remaining daily limit; at
\* dailySpentUSD = dailyLimitUSD every positive amount is denied and an amount
\* that fills the limit exactly is allowed with remaining 0.
C7_CheckLimitsDecision ==
  /\ \A k \in Held :
       now < obj[k].config.expiryTimestamp =>
         \A a \in Amounts :
           /\ CheckLimits(obj[k], a, now) = C7_Expected(obj[k], a)
           /\ (a > 0 /\ obj[k].metadata.dailySpentUSD = obj[k].config.dailyLimitUSD)
                => ~CheckLimits(obj[k], a, now).allowed
           /\ (a > 0 /\ a <= obj[k].config.perTransactionLimitUSD
                 /\ obj[k].metadata.dailySpentUSD + a = obj[k].config.dailyLimitUSD)
                => /\ CheckLimits(obj[k], a, now).allowed
                   /\ CheckLimits(obj[k], a, now).remainingDailyLimitUSD = 0
  /\ (ret.op = "checkLimits" /\ now < obj[ret.keyHash].config.expiryTimestamp) =>
       ret.result = C7_Expected(obj[ret.keyHash], ret.amountUSD)

\* checkLimits has just denied an amount above both the per-transaction limit
\* and the remaining daily limit, on an unexpired session that spent before
C7_Witness ==
  /\ ret.op = "checkLimits"
  /\ now < obj[ret.keyHash].config.expiryTimestamp
  /\ obj[ret.keyHash].metadata.dailySpentUSD > 0
  /\ ret.amountUSD > obj[ret.keyHash].config.perTransactionLimitUSD
  /\ obj[ret.keyHash].metadata.dailySpentUSD + ret.amountUSD
       > obj[ret.keyHash].config.dailyLimitUSD
  /\ ret.result.reason = "exceeds per-transaction limit"

\* the session policy C9 and C10 name, for a config passed or created at time t
PolicyHolds(config, t) ==
  /\ config.dailyLimitUSD > 0
  /\ 0 < config.perTransactionLimitUSD
  /\ config.perTransactionLimitUSD <= config.dailyLimitUSD
  /\ t < config.expiryTimestamp
  /\ config.expiryTimestamp <= t + DAY_MS
  /\ Len(config.allowedChains) > 0

\* C9: createSession with a config that breaks the policy throws
\* SESSION_INVALID and leaves the session store unchanged.
C9_InvalidConfigRejected ==
  [][\A k \in KeyHashes : \A c \in Configs(now) :
       (CreateSession(k, c) /\ ~PolicyHolds(c, now)) =>
         /\ store' = store
         /\ ret'.op = "createSession"
         /\ ret'.error = "SESSION_INVALID"]_vars

\* createSession has just rejected a config whose only fault is an expiry
\* one millisecond past the 24-hour maximum
C9_Witness ==
  /\ ret.op = "createSession"
  /\ ret.error = "SESSION_INVALID"
  /\ ret.message = "Session duration cannot exceed 24 hours"
  /\ \A k \in KeyHashes : store[k] = NoSession

\* C2: however payment flows on one session interleave at their await
\* points, dailySpentUSD never exceeds dailyLimitUSD.
C2_ConcurrentFlowsWithinLimit ==
  \A k \in Held :
    obj[k].metadata.dailySpentUSD <= obj[k].config.dailyLimitUSD

\* C4: a session that revokeSession removed from the store is invalid, and
\* checkLimits denies every amount on the object the caller still holds.
C4_RevokedSessionUnusable ==
  \A k \in Held :
    store[k] = NoSession =>
      /\ ~IsSessionValid(obj[k], now)
      /\ \A a \in Amounts : ~CheckLimits(obj[k], a, now).allowed

\* C5: right after SessionKeyManager.revokeSession(k) or
\* AgentWallet.revokeSession on session k, every token minted for k fails
\* PaymentTokenizer.validate.
C5_RevokeInvalidatesTokens ==
  [][\A k \in KeyHashes :
       (RevokeSession(k) \/ (WalletRevokeSession /\ currentSession = k)) =>
         \A i \in 1..Len(issued) :
           issued[i].keyHash = k => ~ValidateResult(tokenCache', i, now').valid]_vars

\* C6: dailySpentUSD and totalSpentUSD are never negative and totalSpentUSD
\* never decreases, whatever amounts the limit check allowed.
C6_LedgerNonNegativeMonotone ==
  [][\A k \in KeyHashes :
       obj'[k] # NoSession =>
         /\ obj'[k].metadata.dailySpentUSD >= 0
         /\ obj'[k].metadata.totalSpentUSD >= 0
         /\ obj[k] # NoSession =>
              obj'[k].metadata.totalSpentUSD >= obj[k].metadata.totalSpentUSD]_vars

\* the session with its daily window advanced at time t
WindowAdvanced(session, t) ==
  [session EXCEPT !.metadata.dailySpentUSD = 0,
                  !.metadata.dailyResetAt = t + DAY_MS]

\* C8: whenever now >= dailyResetAt, checkLimits decides as if dailySpentUSD
\* were 0, and recordSpending sets dailySpentUSD to 0 and dailyResetAt to
\* now + 24h before it adds the amount.
C8_WindowAdvancedFirst ==
  [][\A k \in Held :
       /\ now >= obj[k].metadata.dailyResetAt =>
            \A a \in Amounts :
              CheckLimits(obj[k], a, now)
                = CheckLimits(WindowAdvanced(obj[k], now), a, now)
       /\ (FlowRecord(1) /\ flows[1].keyHash = k
             /\ now >= obj[k].metadata.dailyResetAt) =>
            /\ obj'[k].metadata.dailySpentUSD = flows[1].amountUSD
            /\ obj'[k].metadata.dailyResetAt = now + DAY_MS]_vars

\* C10: every session in the store has 0 < perTransactionLimitUSD <=
\* dailyLimitUSD, expiryTimestamp <= createdAt + 24h and an allowed chain.
C10_StoredSessionsSatisfyPolicy ==
  \A k \in KeyHashes :
    store[k] # NoSession =>
      /\ 0 < store[k].config.perTransactionLimitUSD
      /\ store[k].config.perTransactionLimitUSD <= store[k].config.dailyLimitUSD
      /\ store[k].config.expiryTimestamp <= store[k].metadata.createdAt + DAY_MS
      /\ Len(store[k].config.allowedChains) >= 1

\* the number of times event e occurs in trace t
Count(t, e) == Cardinality({i \in DOMAIN t : t[i] = e})

\* event a occurs in trace t before position i
Before(t, a, i) == \E j \in DOMAIN t : j < i /\ t[j] = a

\* C11: one invocation of handleFetch signs at most once, records spending at
\* most once and sends at most one retry request; when the initial response
\* is not a 402 it does none of these and returns that response.
C11_AtMostOnePerInvocation ==
  /\ Count(hf.trace, "sign") <= 1
  /\ Count(hf.trace, "record") <= 1
  /\ Count(hf.trace, "retry") <= 1
  /\ (hf.pc = "done" /\ hf.initial # 402) =>
       /\ hf.trace = <<"request">>
       /\ ret.op = "handleFetch" =>
            /\ ret.error = "none"
            /\ ret.response = "initial"
            /\ ret.status = hf.initial

\* the second handleFetch invocation of a fetch call has gone through a whole
\* paid negotiation, after the first one recorded too
C11_Witness ==
  /\ hf.pc = "done"
  /\ hf.attempt = 1
  /\ hf.recorded = 2
  /\ hf.trace = <<"request", "check", "sign", "record", "retry">>

\* C13: in handleX402Flow nothing is signed before the limit check allowed
\* the amount, spending is recorded after signing, and the retry request is
\* sent only once the spending is recorded in the session and in the store.
C13_CheckSignRecordRetry ==
  hf.flow = "x402" =>
    /\ \A i \in DOMAIN hf.trace :
         /\ hf.trace[i] = "sign" => Before(hf.trace, "check", i)
         /\ hf.trace[i] = "record" => Before(hf.trace, "sign", i)
         /\ hf.trace[i] = "retry" => Before(hf.trace, "record", i)
    /\ Count(hf.trace, "retry") > 0 =>
         /\ store[hf.keyHash] = obj[hf.keyHash]
         /\ store[hf.keyHash].metadata.totalSpentUSD
              = hf.before.totalSpentUSD + hf.amountUSD
         /\ store[hf.keyHash].metadata.transactionCount
              = hf.before.transactionCount + 1

\* the retry request of a negotiation has just been sent
C13_Witness ==
  /\ hf.pc = "retry"
  /\ hf.flow = "x402"
  /\ hf.trace = <<"request", "check", "sign", "record", "retry">>
  /\ ret.op = "retryWithPayment"

\* C14: when the limit check denies the amount of the challenge, handleFetch
\* throws a non-retryable LIMIT_EXCEEDED error that carries the reason, the
\* fetch call fails without another attempt, nothing is signed or sent, and
\* the session, the store and the audit log are unchanged.
C14_DeniedChallenge ==
  [][\A resp \in InitialResponses :
       (/\ HandleFetchInitial(resp)
        /\ resp.kind = "x402"
        /\ resp.parsed
        /\ ~CheckLimits(obj[hf.keyHash], EstimateUSDValue(resp), now).allowed) =>
         /\ ret'.op = "handleFetch"
         /\ ret'.error = "LIMIT_EXCEEDED"
         /\ ~ret'.retryable
         /\ ret'.message = <<"Spending limit exceeded: ",
              CheckLimits(obj[hf.keyHash], EstimateUSDValue(resp), now).reason>>
         /\ hf'.pc = "failed"
         /\ Count(hf'.trace, "sign") = 0
         /\ Count(hf'.trace, "retry") = 0
         /\ obj' = obj
         /\ store' = store
         /\ auditStore' = auditStore
         /\ auditMem' = auditMem]_vars

\* a challenge within the per-transaction limit has just been denied by the
\* daily limit, on a session that spent before
C14_Witness ==
  /\ ret.op = "handleFetch"
  /\ ret.error = "LIMIT_EXCEEDED"
  /\ ret.message = <<"Spending limit exceeded: ", "exceeds remaining daily limit">>
  /\ hf.pc = "failed"
  /\ hf.trace = <<"request", "check denied">>
  /\ obj[hf.keyHash].metadata.totalSpentUSD > 0

\* C16: a retry answered with 402 makes handleFetch throw a non-retryable
\* PAYMENT_FAILED error with the error decoded from the new PAYMENT-REQUIRED
\* header, or the default message when there is none to decode; the fetch
\* call fails without another request and the ledger keeps the recorded amount.
C16_SecondRejection ==
  [][\A resp \in RetryResponses :
       (HandleFetchRetryResponse(resp) /\ resp.kind = "status" /\ resp.status = 402) =>
         /\ ret'.op = "handleFetch"
         /\ ret'.error = "PAYMENT_FAILED"
         /\ ~ret'.retryable
         /\ ret'.message =
              IF resp.header = "json with error"
              THEN <<"the error the server sent">>
              ELSE <<"Payment was rejected by the server">>
         /\ hf'.pc = "failed"
         /\ hf'.trace = hf.trace
         /\ obj' = obj
         /\ obj'[hf.keyHash].metadata.totalSpentUSD
              = hf.before.totalSpentUSD + hf.amountUSD]_vars

\* the retry was answered with a 402 whose header names an error
C16_Witness ==
  /\ ret.op = "handleFetch"
  /\ ret.error = "PAYMENT_FAILED"
  /\ ret.message = <<"the error the server sent">>
  /\ hf.pc = "failed"
  /\ hf.trace = <<"request", "check", "sign", "record", "retry">>
  /\ obj[hf.keyHash].metadata.totalSpentUSD = hf.before.totalSpentUSD + hf.amountUSD

\* C12: one AgentWallet.fetch call records spending at most once, whatever
\* happens to the paid retry.
C12_RecordedOncePerFetch ==
  hf.recorded <= 1

\* C15: an invocation the caller cancelled before the recording, or that
\* failed before it, leaves the session ledger as it was; one that fails after
\* the recording leaves it incremented by exactly the recorded amount.
C15_CancelOrFailureLedger ==
  hf.flow = "x402" =>
    /\ (hf.abortedAt # 0 /\ ~Before(hf.trace, "record", hf.abortedAt + 1)) =>
         obj[hf.keyHash].metadata = hf.before
    /\ (ret.op = "handleFetch" /\ ret.error # "none"
          /\ Count(hf.trace, "record") = 0) =>
         obj[hf.keyHash].metadata = hf.before
    /\ (ret.op = "handleFetch" /\ ret.error # "none"
          /\ Count(hf.trace, "record") = 1) =>
         /\ obj[hf.keyHash].metadata.totalSpentUSD
              = hf.before.totalSpentUSD + hf.amountUSD
         /\ obj[hf.keyHash].metadata.transactionCount
              = hf.before.transactionCount + 1

\* C17: for a stablecoin challenge of a whole number of 10^6 smallest units
\* (6 decimals), the USD amount checked and recorded is amount / 10^6.
C17_StablecoinAmountUSD ==
  (hf.flow = "x402" /\ hf.token \in Stablecoins /\ hf.amount > 0
     /\ hf.amount % UNIT = 0) =>
    /\ hf.amountUSD = hf.amount \div UNIT
    /\ Count(hf.trace, "record") = 1 =>
         obj[hf.keyHash].metadata.totalSpentUSD
           = hf.before.totalSpentUSD + (hf.amount \div UNIT)

\* C18: when a negotiation has ended with a 200 and a successful settlement,
\* the wallet's audit log has gained exactly one record, with status
\* confirmed and protocol x402, for the session that paid.
C18_OneConfirmedAuditRecord ==
  (hf.pc = "done" /\ hf.flow = "x402" /\ ret.op = "handleFetch"
     /\ ret.status = 200 /\ ret.settlement = "success") =>
    /\ Len(auditMem[1]) = hf.auditBefore + 1
    /\ auditMem[1][Len(auditMem[1])].status = "confirmed"
    /\ auditMem[1][Len(auditMem[1])].protocol = "x402"
    /\ auditMem[1][Len(auditMem[1])].sessionKeyHash = hf.keyHash

\* C19: every record for which log() has returned is still in the persistent
\* log, and every unfiltered getLogs returns it, whichever AuditLogger
\* instance logged or asks and whether or not the process restarted.
C19_AuditAppendOnly ==
  /\ \A id \in auditAcked : \E j \in DOMAIN auditStore : auditStore[j].id = id
  /\ ret.op = "getLogs" =>
       \A id \in auditAcked : \E j \in DOMAIN ret.result : ret.result[j].id = id

\* C20: once the transfer has succeeded and the spending is recorded,
\* AgentWallet.pay returns the receipt whether or not the audit write throws.
C20_AuditFailureDoesNotAbortPay ==
  [][\A p \in PersistOutcomes :
       (PayAudit(1, p) /\ currentSession # 0) =>
         /\ ret'.op = "pay"
         /\ ret'.error = "none"]_vars

\* C21: the token tokenize(session, ttl) has just returned expires no later
\* than the session it was minted from, and carries that session's daily and
\* per-transaction limits.
C21_TokenWithinSession ==
  ret.op = "tokenize" =>
    LET token == issued[ret.token]
        config == obj[token.keyHash].config
    IN  /\ token.expiresAt <= config.expiryTimestamp
        /\ token.limits.dailyLimitUSD = config.dailyLimitUSD
        /\ token.limits.perTransactionLimitUSD = config.perTransactionLimitUSD

\* a token was asked to outlive its session and expires with it
C21_Witness ==
  /\ ret.op = "tokenize"
  /\ issued[ret.token].expiresAt = obj[issued[ret.token].keyHash].config.expiryTimestamp
  /\ issued[ret.token].expiresAt < now + 2 * DAY_MS
  /\ issued[ret.token].expiresAt > now

\* C22: validate answers invalid with 'Token expired', and the token is out
\* of the index, whenever the token's expiresAt <= now; and it answers
\* invalid, the token out of the index, whenever now >= the expiry of the
\* session the token was minted from.
C22_ValidateRejectsAtExpiry ==
  ret.op = "validate" =>
    LET token == issued[ret.token]
    IN  /\ token.expiresAt <= now =>
             /\ ~ret.result.valid
             /\ ret.result.reason = "Token expired"
             /\ ret.token \notin tokenCache
        /\ now >= obj[token.keyHash].config.expiryTimestamp =>
             /\ ~ret.result.valid
             /\ ret.token \notin tokenCache

Reached(c, t) == RatioAtLeast(c.spent, c.limit, t)
BelowTenth(c) == RatioBelow(c.spent, c.limit, 1)

\* C24: a checkSpending call notifies the alert of threshold t for its
\* session exactly when its ratio is at least t and no earlier call for the
\* same session reached t without a call for that session with a ratio below
\* 0.1 in between; calls for other sessions play no part.
C24_OncePerCrossing ==
  \A j \in DOMAIN alertCalls : \A t \in SpendingThresholds :
    t \in alertCalls[j].notified <=>
      /\ Reached(alertCalls[j], t)
      /\ ~\E i \in 1..(j - 1) :
            /\ alertCalls[i].keyHash = alertCalls[j].keyHash
            /\ Reached(alertCalls[i], t)
            /\ ~\E m \in (i + 1)..(j - 1) :
                  /\ alertCalls[m].keyHash = alertCalls[j].keyHash
                  /\ BelowTenth(alertCalls[m])

\* a session crossed a threshold (notified), stayed above it (silent, also
\* while the other session crossed), fell below a tenth and crossed again
C24_Witness ==
  /\ Len(alertCalls) = 4
  /\ \A j \in 1..4 : alertCalls[j].keyHash = 1
  /\ 5 \in alertCalls[1].notified
  /\ Reached(alertCalls[2], 5) /\ alertCalls[2].notified = {}
  /\ BelowTenth(alertCalls[3])
  /\ 5 \in alertCalls[4].notified

\* C25: a latch leaves triggeredAlerts only in a checkSpending call; a call
\* with a ratio below 0.1 removes every latch of its session and no latch of
\* another session, a call with a ratio of 0.1 or more removes none.
C25_ReArmOnlyBelowTenth ==
  [][/\ triggeredAlerts \ triggeredAlerts' # {} =>
          Len(alertCalls') = Len(alertCalls) + 1
     /\ Len(alertCalls') = Len(alertCalls) + 1 =>
          LET c == alertCalls'[Len(alertCalls')]
          IN  IF BelowTenth(c)
              THEN /\ triggeredAlerts \ triggeredAlerts'
                        = {a \in triggeredAlerts : a[1] = c.keyHash}
                   /\ {a \in triggeredAlerts' : a[1] = c.keyHash} = {}
              ELSE triggeredAlerts \ triggeredAlerts' = {}]_vars

\* one session's latches were just cleared while the other's are still set
C25_Witness ==
  /\ Len(alertCalls) >= 3
  /\ LET c == alertCalls[Len(alertCalls)]
     IN  /\ BelowTenth(c)
         /\ \E i \in 1..(Len(alertCalls) - 1) :
              alertCalls[i].keyHash = c.keyHash /\ alertCalls[i].notified # {}
         /\ {a \in triggeredAlerts : a[1] = c.keyHash} = {}
         /\ {a \in triggeredAlerts : a[1] # c.keyHash} # {}

\* C26: approveTransaction returns true, and the entry is then approved,
\* exactly when an approval was requested for the id and now < its expiresAt
\* (the request time + 5 minutes); and checkApproval reports approved only
\* for an entry that is requested, unexpired and approved.
C26_ApprovalWithinWindow ==
  /\ ret.op = "approveTransaction" =>
       /\ ret.result <=>
            (ret.approval # NoApproval /\ now < ret.approval.expiresAt)
       /\ ret.result =>
            /\ pendingApprovals[ret.tx] # NoApproval
            /\ pendingApprovals[ret.tx].approved
       /\ (ret.approval # NoApproval) =>
            ret.approval.expiresAt = ret.approval.requestedAt + APPROVAL_WINDOW_MS
  /\ ret.op = "checkApproval" =>
       (ret.result.approved =>
          /\ ret.approval # NoApproval
          /\ ret.approval.approved
          /\ now < ret.approval.expiresAt)

\* C27: withRetry waits 2 s, 4 s and 8 s before the first, second and third
\* retry, retries no more than MaxRetries times, and never retries after a
\* non-retryable AgentPaymentError.
C27_BackoffDelays ==
  /\ hf.attempt <= MaxRetries
  /\ hf.pc = "backoff" =>
       /\ hf.attempt < MaxRetries
       /\ hf.delay = 2000 * (2 ^ hf.attempt)
       /\ ret.op = "handleFetch" => ~(ret.agentError /\ ~ret.retryable)

\* C28: for a session made by createSession, sign succeeds, and
\* verifySignature on what it returned answers true for the address of the
\* session's public key and false for every other expected signer.
C28_SignThenVerify ==
  signerSession.madeBy = "createSession" =>
    /\ signerOut.op = "sign" => signerOut.error = "none"
    /\ (signerOut.op = "verifySignature" /\ signerOut.withTokenAddress) =>
         (signerOut.verified <=> signerOut.expectedSigner = signerSession.publicKey)

\* C30: no two transactions of one session key are executing at the same
\* time, and the transactions of every batch were started in queue order:
\* by priority, then by creation time.
C30_SequentialPerKey ==
  /\ \A k \in QueueKeys :
       Cardinality({i \in DOMAIN queue :
                      queue[i].keyHash = k /\ queue[i].status = "processing"}) <= 1
  /\ \A b \in DOMAIN batches :
       \A x, y \in DOMAIN batches[b].transactions :
         x < y => Compare(queue[batches[b].transactions[x]],
                          queue[batches[b].transactions[y]]) <= 0

\* the statuses a transaction does not leave by itself
TerminalStatuses == {"completed", "failed", "expired", "cancelled"}

C38_EveryTransactionTerminates ==
  \A i \in 1..MaxQueue :
    (i \in DOMAIN queue) ~> (i \in DOMAIN queue /\ queue[i].status \in TerminalStatuses)

C39_NoncesNotShared ==
  /\ \A c, d \in NonceCallers :
       (c # d /\ inFlight[c] # NoNonce /\ inFlight[d] # NoNonce
              /\ inFlight[c].keyHash = inFlight[d].keyHash)
         => inFlight[c].nonce # inFlight[d].nonce
  /\ \A c \in NonceCallers :
       inFlight[c] # NoNonce => inFlight[c].nonce \notin usedNonces[inFlight[c].keyHash]
  /\ \A k \in NonceKeys :
       pendingNonces[k] = {inFlight[c].nonce :
                            c \in {d \in NonceCallers : inFlight[d] # NoNonce
                                                         /\ inFlight[d].keyHash = k}}

\* confirmations out of order: nonce 1 of a key is confirmed while nonce 0 is
\* still in flight, and a third caller has been handed nonce 2
C39_Witness ==
  \E k \in NonceKeys : \E c, d \in NonceCallers :
    /\ usedNonces[k] = {1}
    /\ inFlight[c] = [keyHash |-> k, nonce |-> 0]
    /\ inFlight[d] = [keyHash |-> k, nonce |-> 2]

\* the number of events with a terminal status delivered to subscriber s for
\* hash h since h was last tracked
TerminalNotices(h, s) ==
  Cardinality({n \in DOMAIN notified[h] :
                 notified[h][n].to = s /\ notified[h][n].status \in {"confirmed", "timeout"}})

\* C40: since a hash was last tracked every subscriber has been notified of a
\* terminal status of it at most once, and a terminal status changes only in
\* a track() call for that hash.
C40_TerminalOnce ==
  [][\A j \in DOMAIN pollerPending :
       LET h == pollerPending[j].txHash
       IN  /\ \A s \in PollerSubscribers : TerminalNotices(h, s)' <= 1
           /\ (pollerPending[j].status \in {"confirmed", "timeout"}
                  /\ ret' # [op |-> "track", txHash |-> h])
                => pollerPending'[j].status = pollerPending[j].status
    ]_vars

AllowedChains(k) == Range(obj[k].config.allowedChains)

\* C34: a payment of the wallet on a chain that is not among the session's
\* allowedChains does not get past its checks (nothing is signed, transferred
\* or recorded for it), and no route is found to such a chain.
C34_ChainRejected ==
  /\ \A f \in FlowIds :
       (flows[f].pc # "idle" /\ "chain" \in DOMAIN flows[f])
         => flows[f].chain \in AllowedChains(flows[f].keyHash)
  /\ (ret.op = "findOptimalRoute" /\ ret.success)
       => ret.targetChain \in AllowedChains(ret.keyHash)

\* C35: once revokeSession has removed the session of a key hash from the
\* store, loadSession finds none for that key hash until a session is
\* created or imported: no other step puts an entry back.
C35_RevocationFinal ==
  [][\A k \in KeyHashes :
       (obj[k] # NoSession /\ store[k] = NoSession
          /\ ret'.op \notin {"init", "createSession", "importSession",
                              "wallet.importSession"})
        => store'[k] = NoSession
    ]_vars

\* C36: when the 402 flow signs an authorization for a stablecoin challenge,
\* the USD amount it limit-checked (and will record) equals the USD value of
\* the authorization's token amount, which therefore is within the
\* session's per-transaction limit.
C36_SignedValueIsCheckedValue ==
  (ret.op = "sign" /\ "valueUSD" \in DOMAIN ret /\ hf.token \in Stablecoins)
    => /\ hf.amountUSD = ret.valueUSD
       /\ ret.valueUSD <= obj[hf.keyHash].config.perTransactionLimitUSD

\* the wallet has revoked its session and has none now
WalletRevoked ==
  /\ currentSession = 0
  /\ \E k \in DOMAIN obj : obj[k] # NoSession

====
